---- MODULE Spec2Model ----
(***************************************************************************)
(* Model of the PII detection and masking service                          *)
(* (src/services/image-service.js, src/controller/image-controller.js).    *)
(*                                                                         *)
(* A JavaScript string is a sequence of one-character strings, so that     *)
(* the regular expressions, toLowerCase, split, includes and replace of    *)
(* the source are computed character by character.                         *)
(***************************************************************************)
EXTENDS Integers, Sequences, FiniteSets, TLC

VARIABLES
    pc,           \* position of the request inside processImage
    text,         \* ocrResult.text
    words,        \* ocrResult.words
    confidence,   \* ocrResult.confidence
    pii,          \* the PII record being filled
    coordinates,  \* the region list (piiData.coordinates / a resolver's result)
    file,         \* the uploaded file: the pixel size of the image in file.buffer
    ocrImage,     \* the pixel size of the image handed to Tesseract.recognize
    ocrRaw,       \* result.data.text as the OCR engine returned it, before trim()
    metadata,     \* image.metadata() inside createMaskedImage, once it is known
    overlays,     \* the overlays handed to image.composite
    masked,       \* what createMaskedImage returned: "none", "original", "jpeg"
    result,       \* what processImage returned or threw
    trace,        \* the calls the request has made so far, in order
    response,     \* what ImageController sent: res.status(...).json(...)
    searchText,   \* findTextCoordinates: its searchText argument
    fuzzyMatch,   \* findTextCoordinates: its fuzzyMatch argument
    requests,     \* concurrent requests: the locals of each processImage call
    scan,         \* a regular-expression loop of an extractor, turn by turn
    instance      \* the own properties of the shared ImageService object

vars == <<pc, file, ocrImage, ocrRaw, text, words, confidence, pii, coordinates,
          metadata, overlays, masked, result, trace, response, searchText,
          fuzzyMatch, requests, instance, scan>>

\* what the OCR engine returned
ocrVars == <<ocrRaw, text, words, confidence>>

\* the arguments of findTextCoordinates when it is run on its own, the
\* controller's reply, the requests run concurrently on one instance and the
\* loop run turn by turn: no step of a single request touches them
findVars == <<searchText, fuzzyMatch, response, requests, instance, scan>>

\* what createMaskedImage computes
maskVars == <<metadata, overlays, masked>>

\* null: a value no JavaScript string of the model equals
Null == <<"null">>

(***************************************************************************)
(* Bounds of the model                                                     *)
(***************************************************************************)
\* regions handed to createMaskedImage: left and top are multiples of PosStep
\* up to MaxPosK steps either side of 0, width and height multiples of SizeStep
PosStep == 5

MaxPosK == 8

SizeStep == 25

MaxSizeK == 2

\* the image sizes tried, in pixels
SmallImage == 30

LargeImage == 200

ImageSizes == {SmallImage, LargeImage}

\* the image size of the photo scenario, and the sizes of uploaded images
ScenarioImage == 500

RequestSizes == ImageSizes \cup {ScenarioImage}

\* a malformed word box: x1 less than x0 by InvertBy, or the box moved
\* FarAway pixels to the right, outside every image tried
InvertBy == 5

FarAway == 1000

\* findTextCoordinates on its own: word lists of at most MaxWords words in
\* exact mode, words of at most MaxFuzzyLen characters in fuzzy mode
MaxWords == 3

MaxFuzzyLen == 4

\* how far beyond the length limit of a name the candidates tried go
MaxNameExcess == 1

(***************************************************************************)
(* Characters and strings                                                  *)
(***************************************************************************)
Digits == {"0", "1", "2", "3", "4", "5", "6", "7", "8", "9"}

UpperLetters == <<"A", "B", "C", "D", "E", "F", "G", "H", "I", "J", "K", "L", "M",
                  "N", "O", "P", "Q", "R", "S", "T", "U", "V", "W", "X", "Y", "Z">>

LowerLetters == <<"a", "b", "c", "d", "e", "f", "g", "h", "i", "j", "k", "l", "m",
                  "n", "o", "p", "q", "r", "s", "t", "u", "v", "w", "x", "y", "z">>

Range(s) == {s[i] : i \in 1..Len(s)}

\* \d
IsDigit(c) == c \in Digits

\* \s
IsSpace(c) == c \in {" ", "\n", "\t", "\r"}

\* \w
IsWordChar(c) == c \in Range(UpperLetters) \cup Range(LowerLetters) \cup Digits \cup {"_"}

ToLowerChar(c) ==
    IF \E i \in 1..26 : UpperLetters[i] = c
    THEN LowerLetters[CHOOSE i \in 1..26 : UpperLetters[i] = c]
    ELSE c

\* String.prototype.toLowerCase
ToLowerCase(s) == [i \in 1..Len(s) |-> ToLowerChar(s[i])]

\* String.prototype.includes
Includes(s, sub) ==
    \E i \in 0..(Len(s) - Len(sub)) : SubSeq(s, i + 1, i + Len(sub)) = sub

RECURSIVE SplitRec(_, _, _, _)
SplitRec(s, i, cur, acc) ==
    IF i > Len(s) THEN Append(acc, cur)
    ELSE IF IsSpace(s[i])
         THEN IF i > 1 /\ IsSpace(s[i - 1])
              THEN SplitRec(s, i + 1, cur, acc)
              ELSE SplitRec(s, i + 1, <<>>, Append(acc, cur))
         ELSE SplitRec(s, i + 1, Append(cur, s[i]), acc)

\* s.split(/\s+/): the pieces between maximal whitespace runs; a leading or a
\* trailing run leaves an empty piece, and the empty string gives one empty piece.
SplitWS(s) == SplitRec(s, 1, <<>>, <<>>)

\* s.replace(/[^\w]/g, '')
StripNonWord(s) == SelectSeq(s, IsWordChar)

Min2(a, b) == IF a <= b THEN a ELSE b

Max2(a, b) == IF a >= b THEN a ELSE b

\* Math.min(...xs) and Math.max(...xs) of a non-empty set of integers
MinOf(S) == CHOOSE x \in S : \A y \in S : x <= y

MaxOf(S) == CHOOSE x \in S : \A y \in S : x >= y

(***************************************************************************)
(* levenshteinDistance(str1, str2)                                         *)
(***************************************************************************)
\* matrix[i]: row i of the matrix, filled from row i - 1 left to right;
\* a row is the sequence matrix[i][0], ..., matrix[i][str1.length]
RECURSIVE LevRow(_, _, _, _)
LevRow(prev, ch, str1, cur) ==
    LET j == Len(cur)
    IN  IF j > Len(str1) THEN cur
        ELSE LevRow(prev, ch, str1,
                    Append(cur, IF ch = str1[j] THEN prev[j]
                                ELSE Min2(prev[j] + 1,
                                          Min2(cur[j] + 1, prev[j + 1] + 1))))

RECURSIVE LevRows(_, _, _, _)
\* the rows from row i on, prev being row i - 1 (a row is never empty: the
\* test on its length only makes TLC compute it before the next one)
LevRows(prev, i, str1, str2) ==
    IF i > Len(str2) \/ Len(prev) = 0 THEN prev
    ELSE LevRows(LevRow(prev, str2[i], str1, <<i>>), i + 1, str1, str2)

levenshteinDistance(str1, str2) ==
    LET first == [j \in 1..(Len(str1) + 1) |-> j - 1]
    IN  LevRows(first, 1, str1, str2)[Len(str1) + 1]

(***************************************************************************)
(* findTextCoordinates(searchText, words, fuzzyMatch)                      *)
(***************************************************************************)
\* the rectangle pushed for one word in fuzzy mode
WordRect(word) ==
    [left |-> word.bbox.x0, top |-> word.bbox.y0,
     width |-> word.bbox.x1 - word.bbox.x0,
     height |-> word.bbox.y1 - word.bbox.y0]

\* the largest distance at which fuzzy mode still accepts a word
FuzzyThreshold == 2

\* the length a word must exceed for fuzzy mode to look at it
FuzzyMinLen == 2

\* a stricter threshold: distance below FuzzyThreshold, not up to it
FuzzyAccepts_Below(sText, word) ==
    /\ word.text # <<>>
    /\ Len(word.text) > FuzzyMinLen
    /\ LET wordText == StripNonWord(ToLowerCase(word.text))
           searchTextClean == StripNonWord(ToLowerCase(sText))
       IN  \/ Includes(wordText, searchTextClean)
           \/ Includes(searchTextClean, wordText)
           \/ levenshteinDistance(wordText, searchTextClean) < FuzzyThreshold

\* the condition under which fuzzy mode pushes the word's rectangle
FuzzyAccepts(sText, word) ==
    /\ word.text # <<>>
    /\ Len(word.text) > FuzzyMinLen
    /\ LET wordText == StripNonWord(ToLowerCase(word.text))
           searchTextClean == StripNonWord(ToLowerCase(sText))
       IN  \/ Includes(wordText, searchTextClean)
           \/ Includes(searchTextClean, wordText)
           \/ levenshteinDistance(wordText, searchTextClean) <= FuzzyThreshold

RECURSIVE FindFuzzy(_, _, _)
FindFuzzy(sText, ws, k) ==
    IF k > Len(ws) THEN <<>>
    ELSE (IF FuzzyAccepts(sText, ws[k]) THEN <<WordRect(ws[k])>> ELSE <<>>)
         \o FindFuzzy(sText, ws, k + 1)

\* nextWord.text is set and contains the token
WordHasToken(word, token) ==
    /\ word.text # <<>>
    /\ Includes(ToLowerCase(word.text), ToLowerCase(token))

\* the last index the inner loop (j < searchWords.length && i + j < words.length)
\* reaches from start i: it stops at the end of the tokens or of the word list
LastChecked(searchWords, ws, i) == Min2(i + Len(searchWords) - 1, Len(ws))

\* allMatch after the inner loop from start i
AllMatch(searchWords, ws, i) ==
    \A k \in (i + 1)..LastChecked(searchWords, ws, i) :
        WordHasToken(ws[k], searchWords[k - i + 1])

\* the box spanned by the corners of matchingWords taken the wrong way round
\* for the bottom-right corner: the least x1 and y1
BoundingRect_LeastCorner(matchingWords) ==
    LET minX == MinOf({w.bbox.x0 : w \in matchingWords})
        minY == MinOf({w.bbox.y0 : w \in matchingWords})
        maxX == MinOf({w.bbox.x1 : w \in matchingWords})
        maxY == MinOf({w.bbox.y1 : w \in matchingWords})
    IN  [left |-> minX, top |-> minY, width |-> maxX - minX, height |-> maxY - minY]

\* the bounding box of matchingWords
BoundingRect(matchingWords) ==
    LET minX == MinOf({w.bbox.x0 : w \in matchingWords})
        minY == MinOf({w.bbox.y0 : w \in matchingWords})
        maxX == MaxOf({w.bbox.x1 : w \in matchingWords})
        maxY == MaxOf({w.bbox.y1 : w \in matchingWords})
    IN  [left |-> minX, top |-> minY, width |-> maxX - minX, height |-> maxY - minY]

\* the rectangles pushed for start i in exact mode: none or one
ExactAt(searchWords, ws, i) ==
    IF /\ WordHasToken(ws[i], searchWords[1])
       /\ (AllMatch(searchWords, ws, i) \/ Len(searchWords) = 1)
    THEN <<BoundingRect({ws[k] : k \in i..LastChecked(searchWords, ws, i)})>>
    ELSE <<>>

RECURSIVE FindExact(_, _, _)
FindExact(searchWords, ws, i) ==
    IF i > Len(ws) THEN <<>>
    ELSE ExactAt(searchWords, ws, i) \o FindExact(searchWords, ws, i + 1)

findTextCoordinates(sText, ws, fuzzy) ==
    IF fuzzy THEN FindFuzzy(sText, ws, 1)
    ELSE FindExact(SplitWS(ToLowerCase(sText)), ws, 1)

(***************************************************************************)
(* createMaskedImage(originalBuffer, coordinates)                          *)
(***************************************************************************)
\* const padding = 10
Padding == 10

\* Math.round: the regions and the image sizes of the model are integers
Round(x) == x

NoMetadata == [known |-> FALSE, width |-> 0, height |-> 0]

\* the padded rectangle with left and top clamped but width and height not
\* cut to the image
ClampedRect_Uncut(coord, k, width, height) ==
    LET left == Max2(0, coord.left - Padding)
        top == Max2(0, coord.top - Padding)
        w == coord.width + (Padding * 2)
        h == coord.height + (Padding * 2)
    IN  [left |-> Round(left), top |-> Round(top),
         width |-> Round(w), height |-> Round(h), region |-> k]

\* the clamped rectangle computed for one region; region is the index of the
\* coordinate it was computed from
ClampedRect(coord, k, width, height) ==
    LET left == Max2(0, coord.left - Padding)
        top == Max2(0, coord.top - Padding)
        w == Min2(width - left, coord.width + (Padding * 2))
        h == Min2(height - top, coord.height + (Padding * 2))
    IN  [left |-> Round(left), top |-> Round(top),
         width |-> Round(w), height |-> Round(h), region |-> k]

RECURSIVE BuildOverlays(_, _, _, _)
\* the loop over coordinates: an overlay for every region whose clamped
\* rectangle has positive width and height
BuildOverlays(coords, k, width, height) ==
    IF k > Len(coords) THEN <<>>
    ELSE LET r == ClampedRect(coords[k], k, width, height)
         IN  (IF r.width > 0 /\ r.height > 0 THEN <<r>> ELSE <<>>)
             \o BuildOverlays(coords, k + 1, width, height)

\* what the sharp calls of createMaskedImage can do: all succeed, metadata()
\* rejects, or building or compositing the overlays rejects
SharpOutcomes == {"ok", "metadataFails", "compositeFails"}

\* createMaskedImage as one step of the request; the catch block returns the
\* original buffer
CreateMaskedImage ==
    /\ pc = "mask"
    /\ pc' = "respond"
    /\ IF coordinates = <<>>
       THEN /\ masked' = "original"
            /\ trace' = Append(trace, "maskSkipped")
            /\ UNCHANGED <<metadata, overlays>>
       ELSE \E outcome \in SharpOutcomes :
            /\ metadata' = IF outcome = "metadataFails" THEN NoMetadata
                           ELSE [known |-> TRUE, width |-> file.width,
                                 height |-> file.height]
            /\ overlays' = IF outcome = "metadataFails" THEN <<>>
                           ELSE BuildOverlays(coordinates, 1, file.width, file.height)
            /\ masked' = IF outcome = "ok" THEN "jpeg" ELSE "original"
            /\ trace' = Append(trace, IF outcome = "ok" THEN "composite"
                                      ELSE "compositeFailed")
    /\ UNCHANGED <<file, ocrImage, ocrVars, pii, coordinates, result, findVars>>

\* estimatePhotoRegion()
estimatePhotoRegion ==
    [left |-> 50, top |-> 50, width |-> 150, height |-> 180, type |-> "photo"]

\* getEmptyPII()
getEmptyPII ==
    [name |-> Null, dob |-> Null, aadhaar |-> Null, address |-> Null,
     phone |-> Null, email |-> Null, pan |-> Null, fatherName |-> Null,
     documentType |-> Null, hasPhoto |-> FALSE]

NoResult == [kind |-> "none"]

\* no loop is running
NoScan == [pc |-> "none"]

\* no image yet
NoImage == [width |-> 0, height |-> 0]

\* new ImageService(): the constructor only logs, the object has no property
\* of its own; a property is a record [name, value]
NewImageService == {}

\* nothing sent yet
NoResponse == [status |-> 0]

(***************************************************************************)
(* The words the OCR engine reports for a text: its whitespace-separated   *)
(* tokens, each with the box of a fixed-pitch layout of the text           *)
(***************************************************************************)
CharWidth == 10

LineHeight == 30

GlyphHeight == 20

LeftMargin == 20

TopMargin == 15

TokenBox(line, col, len) ==
    [x0 |-> LeftMargin + CharWidth * col,
     y0 |-> TopMargin + LineHeight * line,
     x1 |-> LeftMargin + CharWidth * (col + len),
     y1 |-> TopMargin + LineHeight * line + GlyphHeight]

\* the positions at which a token begins
TokenStarts(s) ==
    {i \in 1..Len(s) : ~IsSpace(s[i]) /\ (i = 1 \/ IsSpace(s[i - 1]))}

\* the last position of the token that begins at i
TokenEnd(s, i) == MinOf({j \in i..Len(s) : j = Len(s) \/ IsSpace(s[j + 1])})

\* the line of position i, and its column in that line, both from 0
LineOf(s, i) == Cardinality({k \in 1..(i - 1) : s[k] = "\n"})

ColOf(s, i) == (i - 1) - MaxOf({0} \cup {k \in 1..(i - 1) : s[k] = "\n"})

WordAt(s, i) ==
    [text |-> SubSeq(s, i, TokenEnd(s, i)),
     bbox |-> TokenBox(LineOf(s, i), ColOf(s, i), TokenEnd(s, i) - i + 1)]

IsTokenStart(s, i) == i \in TokenStarts(s)

StartsInOrder(s) == SelectSeq([i \in 1..Len(s) |-> i], LAMBDA i : IsTokenStart(s, i))

OcrWords(s) == [k \in 1..Len(StartsInOrder(s)) |-> WordAt(s, StartsInOrder(s)[k])]

(***************************************************************************)
(* extractAadhaarWithCoordinates(text, words, pii, coordinates)            *)
(***************************************************************************)
\* text.replace(/[^\d\s]/g, ' ')
CleanDigitsText(s) ==
    [i \in 1..Len(s) |-> IF IsDigit(s[i]) \/ IsSpace(s[i]) THEN s[i] ELSE " "]

RECURSIVE DigitRunsRec(_, _, _, _)
DigitRunsRec(s, i, cur, acc) ==
    LET flushed == IF cur = <<>> THEN acc ELSE Append(acc, cur)
    IN  IF i > Len(s) THEN flushed
        ELSE IF IsDigit(s[i]) THEN DigitRunsRec(s, i + 1, Append(cur, s[i]), acc)
        ELSE DigitRunsRec(s, i + 1, <<>>, flushed)

\* s.match(/\d+/g) || []: the maximal digit runs, in text order
DigitRuns(s) == DigitRunsRec(s, 1, <<>>, <<>>)

AadhaarLength == 12

\* twelve digits, whatever the first one is
isValidAadhaar_AnyFirstDigit(aadhaar) ==
    /\ Len(aadhaar) = AadhaarLength
    /\ \A i \in 1..Len(aadhaar) : IsDigit(aadhaar[i])

\* /^\d{12}$/ and a first digit other than 0 and 1
isValidAadhaar(aadhaar) ==
    /\ Len(aadhaar) = AadhaarLength
    /\ \A i \in 1..Len(aadhaar) : IsDigit(aadhaar[i])
    /\ aadhaar[1] # "0"
    /\ aadhaar[1] # "1"

\* the surface forms handed to findTextCoordinates
AadhaarFormats(num) ==
    <<num,
      SubSeq(num, 1, 4) \o <<" ">> \o SubSeq(num, 5, 8) \o <<" ">> \o SubSeq(num, 9, 12),
      SubSeq(num, 1, 4) \o <<"-">> \o SubSeq(num, 5, 8) \o <<"-">> \o SubSeq(num, 9, 12)>>

\* the numbers the loop over numbers accepts, in order: the loop stops at the first
AadhaarAccepted(s) ==
    SelectSeq(DigitRuns(CleanDigitsText(s)),
              LAMBDA num : Len(num) = AadhaarLength /\ isValidAadhaar(num))

\* the rectangles of the first format that findTextCoordinates resolves
AadhaarCoords(num, ws) ==
    LET formats == AadhaarFormats(num)
        hits == SelectSeq(formats, LAMBDA f : findTextCoordinates(f, ws, TRUE) # <<>>)
    IN  IF hits = <<>> THEN <<>> ELSE findTextCoordinates(hits[1], ws, TRUE)

\* the record and the region list after extractAadhaarWithCoordinates
extractAadhaarWithCoordinates(s, ws, p, coords) ==
    LET accepted == AadhaarAccepted(s)
    IN  IF accepted = <<>> THEN [pii |-> p, coordinates |-> coords]
        ELSE [pii |-> [p EXCEPT !.aadhaar = accepted[1]],
              coordinates |-> coords \o AadhaarCoords(accepted[1], ws)]

\* the calls an extractor adds to the trace: itself and, when it set a
\* field, findTextCoordinates
Called(extractor, resolved) ==
    <<extractor>> \o (IF resolved THEN <<"findTextCoordinates">> ELSE <<>>)

ExtractAadhaar ==
    /\ pc = "aadhaar"
    /\ pc' = "pan"
    /\ LET r == extractAadhaarWithCoordinates(text, words, pii, coordinates)
       IN  /\ pii' = r.pii
           /\ coordinates' = r.coordinates
           /\ trace' = trace \o Called("extractAadhaar", r.pii # pii)
    /\ UNCHANGED <<file, ocrImage, ocrVars, maskVars, result, findVars>>

(***************************************************************************)
(* More string operations                                                  *)
(***************************************************************************)
ToUpperChar(c) ==
    IF \E i \in 1..26 : LowerLetters[i] = c
    THEN UpperLetters[CHOOSE i \in 1..26 : LowerLetters[i] = c]
    ELSE c

\* String.prototype.toUpperCase
ToUpperCase(s) == [i \in 1..Len(s) |-> ToUpperChar(s[i])]

RECURSIVE TrimStart(_)
TrimStart(s) == IF s # <<>> /\ IsSpace(Head(s)) THEN TrimStart(Tail(s)) ELSE s

RECURSIVE TrimEnd(_)
TrimEnd(s) ==
    IF s # <<>> /\ IsSpace(s[Len(s)]) THEN TrimEnd(SubSeq(s, 1, Len(s) - 1)) ELSE s

\* String.prototype.trim
Trim(s) == TrimEnd(TrimStart(s))

RECURSIVE SplitLinesRec(_, _, _, _)
SplitLinesRec(s, i, cur, acc) ==
    IF i > Len(s) THEN Append(acc, cur)
    ELSE IF s[i] = "\n" THEN SplitLinesRec(s, i + 1, <<>>, Append(acc, cur))
    ELSE SplitLinesRec(s, i + 1, Append(cur, s[i]), acc)

\* s.split('\n')
SplitLines(s) == SplitLinesRec(s, 1, <<>>, <<>>)

\* the character at position i, or a non-word character outside the string
CharAt(s, i) == IF i >= 1 /\ i <= Len(s) THEN s[i] ELSE " "

\* \b between positions i - 1 and i
WordBoundary(s, i) == IsWordChar(CharAt(s, i - 1)) # IsWordChar(CharAt(s, i))

\* s.substr(i, n) consists of n digits
DigitsAt(s, i, n) == i + n - 1 <= Len(s) /\ \A k \in i..(i + n - 1) : IsDigit(s[k])

DigitValue(c) == CHOOSE v \in 0..9 : <<"0", "1", "2", "3", "4", "5", "6", "7", "8", "9">>[v + 1] = c

RECURSIVE ParseInt(_)
\* parseInt of a string of digits
ParseInt(s) ==
    IF s = <<>> THEN 0 ELSE 10 * ParseInt(SubSeq(s, 1, Len(s) - 1)) + DigitValue(s[Len(s)])

NoMatch == [start |-> 0, stop |-> 0, group |-> <<>>]

(***************************************************************************)
(* detectDocumentType(text, pii)                                           *)
(***************************************************************************)
PanKeywords == {<<"i", "n", "c", "o", "m", "e", " ", "t", "a", "x">>,
                <<"p", "e", "r", "m", "a", "n", "e", "n", "t", " ", "a", "c", "c", "o", "u", "n", "t">>}

AadhaarKeywords == {<<"a", "a", "d", "h", "a", "a", "r">>, <<"U+0906", "U+0927", "U+093E", "U+0930">>,
                    <<"u", "i", "d", "a", "i">>}

LicenceKeywords == {<<"d", "r", "i", "v", "i", "n", "g", " ", "l", "i", "c", "e", "n", "c", "e">>,
                    <<"t", "r", "a", "n", "s", "p", "o", "r", "t">>}

IncludesAny(s, keywords) == \E k \in keywords : Includes(s, k)

\* the keyword sets checked in another order: Aadhaar before PAN
detectDocumentType_AadhaarFirst(s, p) ==
    LET lowerText == ToLowerCase(s)
        type == IF IncludesAny(lowerText, AadhaarKeywords) THEN <<"Aadhaar Card">>
                ELSE IF IncludesAny(lowerText, PanKeywords) THEN <<"PAN Card">>
                ELSE IF IncludesAny(lowerText, LicenceKeywords) THEN <<"Driving License">>
                ELSE <<"Government ID">>
    IN  [p EXCEPT !.documentType = type, !.hasPhoto = TRUE]

\* a variant that expects a photo only on the documents it recognizes
detectDocumentType_PhotoIfRecognized(s, p) ==
    LET lowerText == ToLowerCase(s)
        type == IF IncludesAny(lowerText, PanKeywords) THEN <<"PAN Card">>
                ELSE IF IncludesAny(lowerText, AadhaarKeywords) THEN <<"Aadhaar Card">>
                ELSE IF IncludesAny(lowerText, LicenceKeywords) THEN <<"Driving License">>
                ELSE <<"Government ID">>
    IN  [p EXCEPT !.documentType = type, !.hasPhoto = (type # <<"Government ID">>)]

detectDocumentType(s, p) ==
    LET lowerText == ToLowerCase(s)
        type == IF IncludesAny(lowerText, PanKeywords) THEN <<"PAN Card">>
                ELSE IF IncludesAny(lowerText, AadhaarKeywords) THEN <<"Aadhaar Card">>
                ELSE IF IncludesAny(lowerText, LicenceKeywords) THEN <<"Driving License">>
                ELSE <<"Government ID">>
    IN  [p EXCEPT !.documentType = type, !.hasPhoto = TRUE]

(***************************************************************************)
(* extractDOBWithCoordinates(text, words, pii, coordinates)                *)
(***************************************************************************)
\* [\/\-\.]
IsDateSep(c) == c \in {"/", "-", "."}

\* \d{1,2}[\/\-\.]\d{1,2}[\/\-\.]\d{4} at position i with d1 and d2 digits
DateShape(s, i, d1, d2) ==
    /\ DigitsAt(s, i, d1)
    /\ IsDateSep(CharAt(s, i + d1))
    /\ DigitsAt(s, i + d1 + 1, d2)
    /\ IsDateSep(CharAt(s, i + d1 + 1 + d2))
    /\ DigitsAt(s, i + d1 + d2 + 2, 4)

\* the digit counts <<d1, d2>> with which a date starts at position i,
\* followed by a word boundary when bounded; the digit after a first digit
\* decides each \d{1,2}, so at most one pair fits
DateFits(s, i, bounded) ==
    {d \in {<<2, 2>>, <<2, 1>>, <<1, 2>>, <<1, 1>>} :
        /\ DateShape(s, i, d[1], d[2])
        /\ bounded => WordBoundary(s, i + d[1] + d[2] + 6)}

DateEndOf(i, fits) ==
    IF fits = {} THEN 0
    ELSE LET d == CHOOSE d \in fits : TRUE IN i + d[1] + d[2] + 6

\* the position after the date that starts at i, or 0 when there is none
DateEnd(s, i, bounded) == DateEndOf(i, DateFits(s, i, bounded))

\* the length of \s* at position i
RECURSIVE SpaceRun(_, _)
SpaceRun(s, i) == IF IsSpace(CharAt(s, i)) /\ i <= Len(s) THEN 1 + SpaceRun(s, i + 1) ELSE 0

\* the length of [:\s]* at position i
RECURSIVE ColonSpaceRun(_, _)
ColonSpaceRun(s, i) ==
    IF i <= Len(s) /\ (s[i] = ":" \/ IsSpace(s[i])) THEN 1 + ColonSpaceRun(s, i + 1) ELSE 0

\* the literal lit at position i, ignoring case
LiteralAt(s, i, lit) ==
    /\ i + Len(lit) - 1 <= Len(s)
    /\ ToLowerCase(SubSeq(s, i, i + Len(lit) - 1)) = ToLowerCase(lit)

DobLabel == <<"D", "O", "B">>

JanmLabel == <<"U+091C", "U+0928", "U+094D", "U+092E">>

TithiLabel == <<"U+0924", "U+093F", "U+0925", "U+093F">>

\* the match that starts at i, whose date starts at c and stops before e
DateMatch(s, i, c, e) ==
    IF e = 0 THEN NoMatch ELSE [start |-> i, stop |-> e, group |-> SubSeq(s, c, e - 1)]

\* the date that starts at c, after a label that starts at i
DateFrom(s, i, c) == DateMatch(s, i, c, DateEnd(s, c, FALSE))

\* the position after :? at a
AfterColon(s, a) == IF CharAt(s, a) = ":" THEN a + 1 ELSE a

\* the position after \s* at b
AfterSpaces(s, b) == b + SpaceRun(s, b)

\* the position after [:\s]* at c
AfterColonSpaces(s, c) == c + ColonSpaceRun(s, c)

\* /\b(\d{1,2}[\/\-\.]\d{1,2}[\/\-\.]\d{4})\b/g at position i
DobPattern1At(s, i) ==
    IF WordBoundary(s, i) THEN DateMatch(s, i, i, DateEnd(s, i, TRUE)) ELSE NoMatch

\* /DOB:?\s*(\d{1,2}[\/\-\.]\d{1,2}[\/\-\.]\d{4})/gi at position i: the date
\* starts right after the greedy :? and \s*, which match no digit
DobPattern2At(s, i) ==
    IF LiteralAt(s, i, DobLabel)
    THEN DateFrom(s, i, AfterSpaces(s, AfterColon(s, i + Len(DobLabel))))
    ELSE NoMatch

\* the second label of the third pattern at b, then [:\s]* and the date
TithiAt(s, i, b) ==
    IF LiteralAt(s, b, TithiLabel)
    THEN DateFrom(s, i, AfterColonSpaces(s, b + Len(TithiLabel)))
    ELSE NoMatch

\* the third pattern, with the Hindi label, at position i
DobPattern3At(s, i) ==
    IF LiteralAt(s, i, JanmLabel)
    THEN TithiAt(s, i, AfterSpaces(s, i + Len(JanmLabel)))
    ELSE NoMatch

\* [A-Z]
IsUpper(c) == c \in Range(UpperLetters)

\* /\b([A-Z]{5}\d{4}[A-Z])\b/g at position i
PanPatternAt(s, i) ==
    IF /\ i + 9 <= Len(s)
       /\ WordBoundary(s, i)
       /\ \A k \in i..(i + 4) : IsUpper(s[k])
       /\ DigitsAt(s, i + 5, 4)
       /\ IsUpper(s[i + 9])
       /\ WordBoundary(s, i + 10)
    THEN [start |-> i, stop |-> i + 10, group |-> SubSeq(s, i, i + 9)]
    ELSE NoMatch

\* /\b(\+91[\s\-]?\d{10})\b/g at position i
PhonePattern1At(s, i) ==
    IF ~(WordBoundary(s, i) /\ LiteralAt(s, i, <<"+", "9", "1">>)) THEN NoMatch
    ELSE LET a == i + 3
             withSep == (IsSpace(CharAt(s, a)) \/ CharAt(s, a) = "-")
                        /\ DigitsAt(s, a + 1, 10) /\ WordBoundary(s, a + 11)
             noSep == DigitsAt(s, a, 10) /\ WordBoundary(s, a + 10)
             e == IF withSep THEN a + 11 ELSE IF noSep THEN a + 10 ELSE 0
         IN  IF e = 0 THEN NoMatch
             ELSE [start |-> i, stop |-> e, group |-> SubSeq(s, i, e - 1)]

\* /\b([6-9]\d{9})\b/g at position i
PhonePattern2At(s, i) ==
    IF /\ WordBoundary(s, i)
       /\ CharAt(s, i) \in {"6", "7", "8", "9"}
       /\ DigitsAt(s, i, 10)
       /\ WordBoundary(s, i + 10)
    THEN [start |-> i, stop |-> i + 10, group |-> SubSeq(s, i, i + 9)]
    ELSE NoMatch

PatternAt(pat, s, i) ==
    CASE pat = "dob1" -> DobPattern1At(s, i)
      [] pat = "dob2" -> DobPattern2At(s, i)
      [] pat = "dob3" -> DobPattern3At(s, i)
      [] pat = "pan" -> PanPatternAt(s, i)
      [] pat = "phone1" -> PhonePattern1At(s, i)
      [] pat = "phone2" -> PhonePattern2At(s, i)

\* the leftmost of a set of matches
Leftmost(ms) ==
    IF ms = {} THEN NoMatch ELSE CHOOSE m \in ms : \A n \in ms : m.start <= n.start

\* pattern.exec(text) with lastIndex = from - 1: the leftmost match at or
\* after position from
Exec(pat, s, from) == Leftmost({PatternAt(pat, s, i) : i \in from..Len(s)} \ {NoMatch})

\* new Date().getFullYear()
CurrentYear == 2025

MinYear == 1900

isValidDate(dateStr) ==
    LET e == DateEnd(dateStr, 1, FALSE)
    IN  /\ e = Len(dateStr) + 1
        /\ LET d1 == IF IsDigit(CharAt(dateStr, 2)) THEN 2 ELSE 1
               d2 == IF IsDigit(CharAt(dateStr, d1 + 3)) THEN 2 ELSE 1
               day == ParseInt(SubSeq(dateStr, 1, d1))
               month == ParseInt(SubSeq(dateStr, d1 + 2, d1 + 1 + d2))
               year == ParseInt(SubSeq(dateStr, d1 + d2 + 3, d1 + d2 + 6))
           IN  /\ day >= 1 /\ day <= 31
               /\ month >= 1 /\ month <= 12
               /\ year >= MinYear /\ year <= CurrentYear

\* the first match of the pattern, in range or not
FirstValidDate_NoSkip(pat, s, from) == Exec(pat, s, from)

RECURSIVE FirstValidDate(_, _, _)

\* one turn of the while loop over pattern.exec(text), m the match it got
ValidDateOr(pat, s, m) ==
    IF m.start = 0 THEN NoMatch
    ELSE IF isValidDate(m.group) THEN m
    ELSE FirstValidDate(pat, s, m.stop)

\* the while loop over pattern.exec(text): the first match whose date is
\* valid, or NoMatch when the matches run out
FirstValidDate(pat, s, from) == ValidDateOr(pat, s, Exec(pat, s, from))

dobPatterns == <<"dob1", "dob2", "dob3">>

RECURSIVE FirstDate(_, _)

\* the rest of the loop over dobPatterns, m the match of the k-th pattern
DateOrNext(s, k, m) == IF m.start # 0 THEN m ELSE FirstDate(s, k + 1)

\* the loop over dobPatterns from the k-th on: the match of the first
\* pattern that finds a valid date
FirstDate(s, k) ==
    IF k > Len(dobPatterns) THEN NoMatch
    ELSE DateOrNext(s, k, FirstValidDate(dobPatterns[k], s, 1))

\* a variant that reports the date only when a word of the image carries it
WithDOB_OnlyIfLocated(m, ws, p, coords) ==
    IF m.start = 0 \/ findTextCoordinates(m.group, ws, FALSE) = <<>>
    THEN [pii |-> p, coordinates |-> coords]
    ELSE [pii |-> [p EXCEPT !.dob = m.group],
          coordinates |-> coords \o findTextCoordinates(m.group, ws, FALSE)]

\* extractDOBWithCoordinates once the loop has ended with match m
WithDOB(m, ws, p, coords) ==
    IF m.start = 0 THEN [pii |-> p, coordinates |-> coords]
    ELSE [pii |-> [p EXCEPT !.dob = m.group],
          coordinates |-> coords \o findTextCoordinates(m.group, ws, FALSE)]

extractDOBWithCoordinates(s, ws, p, coords) == WithDOB(FirstDate(s, 1), ws, p, coords)

(***************************************************************************)
(* extractPANWithCoordinates(text, words, pii, coordinates)                *)
(***************************************************************************)
extractPANWithCoordinates(s, ws, p, coords) ==
    LET match == Exec("pan", s, 1)
    IN  IF match.start = 0 THEN [pii |-> p, coordinates |-> coords]
        ELSE [pii |-> [p EXCEPT !.pan = match.group],
              coordinates |-> coords \o findTextCoordinates(match.group, ws, FALSE)]

(***************************************************************************)
(* extractPhoneWithCoordinates(text, words, pii, coordinates)              *)
(***************************************************************************)
phonePatterns == <<"phone1", "phone2">>

extractPhoneWithCoordinates(s, ws, p, coords) ==
    LET found == SelectSeq(phonePatterns, LAMBDA pat : Exec(pat, s, 1).start # 0)
    IN  IF found = <<>> THEN [pii |-> p, coordinates |-> coords]
        ELSE LET phoneNumber == Exec(found[1], s, 1).group
             IN  [pii |-> [p EXCEPT !.phone = phoneNumber],
                  coordinates |-> coords \o findTextCoordinates(phoneNumber, ws, FALSE)]

(***************************************************************************)
(* cleanName, isValidName, extractNamesWithCoordinates                     *)
(***************************************************************************)
\* a character that is not part of the result
Dropped == "dropped"

IsKept(c) == c # Dropped

\* s.replace(re, ' ') for a pattern that matches the maximal runs of the
\* characters InRun accepts: the last character of a run becomes the space,
\* the others go
ReplaceRuns(s, InRun(_)) ==
    SelectSeq([i \in 1..Len(s) |->
                  IF ~InRun(s[i]) THEN s[i]
                  ELSE IF i < Len(s) /\ InRun(s[i + 1]) THEN Dropped
                  ELSE " "],
              IsKept)

\* s.replace(/\d+/g, ' ')
ReplaceDigitRuns(s) == ReplaceRuns(s, IsDigit)

\* s.replace(/\s+/g, ' ')
CollapseSpaces(s) == ReplaceRuns(s, IsSpace)

cleanName(name) ==
    LET noPipes == [i \in 1..Len(name) |-> IF name[i] = "|" THEN " " ELSE name[i]]
        noDigits == ReplaceDigitRuns(noPipes)
        noPunct == [i \in 1..Len(noDigits) |->
                       IF IsWordChar(noDigits[i]) \/ IsSpace(noDigits[i])
                       THEN noDigits[i] ELSE " "]
    IN  ToUpperCase(Trim(CollapseSpaces(noPunct)))

MinNameLength == 2

MaxNameLength == 50

NonNameTokens == {<<"i", "n", "c", "o", "m", "e">>, <<"t", "a", "x">>,
                  <<"d", "e", "p", "a", "r", "t", "m", "e", "n", "t">>}

\* a name of MinNameLength characters passes too
isValidName_AtLeast(name) ==
    /\ name # <<>>
    /\ Len(name) >= MinNameLength
    /\ Len(name) < MaxNameLength
    /\ ~(\A i \in 1..Len(name) : IsDigit(name[i]))
    /\ ~IncludesAny(ToLowerCase(name), NonNameTokens)

isValidName(name) ==
    /\ name # <<>>
    /\ Len(name) > MinNameLength
    /\ Len(name) < MaxNameLength
    /\ ~(\A i \in 1..Len(name) : IsDigit(name[i]))
    /\ ~IncludesAny(ToLowerCase(name), NonNameTokens)

\* text.split('\n').map(l => l.trim()).filter(l => l.length > 1)
NameLines(s) ==
    LET ls == SplitLines(s)
        trimmed == [i \in 1..Len(ls) |-> Trim(ls[i])]
    IN  SelectSeq(trimmed, LAMBDA l : Len(l) > 1)

NameKeyword == <<"n", "a", "m", "e">>

FatherKeyword == <<"f", "a", "t", "h", "e", "r">>

fatherKeywords == {<<"f", "a", "t", "h", "e", "r">>, <<"U+092A", "U+093F", "U+0924", "U+093E">>,
                   <<"s", "/", "o">>, <<"s", "o", "n", " ", "o", "f">>}

\* the lines at which strategy 1 stops: a line with 'name' and without
\* 'father' whose next line cleans to a valid name
NameHits(lines) ==
    {i \in 1..(Len(lines) - 1) :
        /\ Includes(ToLowerCase(lines[i]), NameKeyword)
        /\ ~Includes(ToLowerCase(lines[i]), FatherKeyword)
        /\ isValidName(cleanName(lines[i + 1]))}

\* strategy 1
ExtractName(s, ws, p, coords) ==
    LET lines == NameLines(s)
        hits == NameHits(lines)
    IN  IF hits = {} THEN [pii |-> p, coordinates |-> coords]
        ELSE LET i == CHOOSE i \in hits : \A j \in hits : i <= j
                 nameCandidate == cleanName(lines[i + 1])
             IN  [pii |-> [p EXCEPT !.name = nameCandidate],
                  coordinates |-> coords \o findTextCoordinates(nameCandidate, ws, TRUE)]

RECURSIVE ExtractFather(_, _, _, _, _)
\* strategy 2: the loop over the lines does not stop at a hit, so every line
\* with a father keyword and a valid next line sets fatherName and adds the
\* rectangles of its candidate
ExtractFather(lines, i, ws, p, coords) ==
    IF i > Len(lines) THEN [pii |-> p, coordinates |-> coords]
    ELSE LET hit == /\ IncludesAny(ToLowerCase(lines[i]), fatherKeywords)
                    /\ i + 1 <= Len(lines)
                    /\ isValidName(cleanName(lines[i + 1]))
             fatherNameCandidate == cleanName(lines[i + 1])
         IN  IF hit
             THEN ExtractFather(lines, i + 1, ws,
                                [p EXCEPT !.fatherName = fatherNameCandidate],
                                coords \o findTextCoordinates(fatherNameCandidate, ws, TRUE))
             ELSE ExtractFather(lines, i + 1, ws, p, coords)

extractNamesWithCoordinates(s, ws, p, coords) ==
    LET r == ExtractName(s, ws, p, coords)
    IN  ExtractFather(NameLines(s), 1, ws, r.pii, r.coordinates)

(***************************************************************************)
(* processImage(file): one request, step by step                           *)
(***************************************************************************)
\* the texts the OCR engine may return
RawTexts ==
    {<<>>,
     <<" ", " ", "\n", " ">>,
     <<"N", "A", "M", "E", "\n", "J", "O", "H", "N", " ", "S", "M", "I", "T", "H", "\n", "D", "O", "B", " ", "1", "5", "/", "0", "8", "/", "1", "9", "9", "0">>,
     <<"1", "2", "3", "4", " ", "5", "6", "7", "8", " ", "9", "0", "1", "2">>,
     <<"P", "e", "r", "m", "a", "n", "e", "n", "t", " ", "A", "c", "c", "o", "u", "n", "t", " ", "N", "u", "m", "b", "e", "r", "\n", "A", "B", "C", "D", "E", "1", "2", "3", "4", "F">>,
     <<" ", "A", "A", "D", "H", "A", "A", "R", "\n", "2", "3", "4", "5", "6", "7", "8", "9", "0", "1", "2", "3", "\n", "F", "a", "t", "h", "e", "r", "\n", "R", "A", "M", " ", "L", "A", "L", "\n", "+", "9", "1", " ", "9", "8", "7", "6", "5", "4", "3", "2", "1", "0", " ">>,
     <<"h", "e", "l", "l", "o">>}

Confidences == {0, 90}

\* result.data of a successful Tesseract.recognize: the text, the word list
\* (absent, or the words of the text) and the confidence
\* a word whose box is inverted, and one whose box is out of range
Inverted(w) == [w EXCEPT !.bbox.x1 = w.bbox.x0 - InvertBy]

Displaced(w) == [w EXCEPT !.bbox.x0 = @ + FarAway, !.bbox.x1 = @ + FarAway]

\* the word lists the engine may report for a text: none, the words of the
\* text, or these with one box malformed
WordLists(t) ==
    {<<>>, OcrWords(t)}
    \cup {[OcrWords(t) EXCEPT ![k] = Inverted(@)] : k \in 1..Len(OcrWords(t))}
    \cup {[OcrWords(t) EXCEPT ![k] = Displaced(@)] : k \in 1..Len(OcrWords(t))}

OcrOutputs ==
    UNION {{[text |-> t, words |-> w, confidence |-> c] :
               w \in WordLists(t), c \in Confidences} : t \in RawTexts}

\* no req.file
NoFile == [width |-> 0, height |-> 0]

\* ImageController up to the call of processImage: a request without a file
\* is answered at once
Receive ==
    /\ pc = "request"
    /\ IF file = NoFile
       THEN /\ pc' = "replied"
            /\ response' = [status |-> 400, success |-> FALSE, error |-> "MISSING_FILE"]
       ELSE /\ pc' = "start"
            /\ UNCHANGED response
    /\ UNCHANGED <<file, ocrImage, ocrVars, pii, coordinates, maskVars, result, trace,
                   searchText, fuzzyMatch, requests, instance, scan>>

\* the messages a failed OCR attempt may carry
OcrErrorMessages ==
    {<<"w", "o", "r", "k", "e", "r", " ", "t", "e", "r", "m", "i", "n", "a", "t", "e", "d">>,
     <<"c", "a", "n", "n", "o", "t", " ", "r", "e", "a", "d", " ", "i", "m", "a", "g", "e", " ", "f", "i", "l", "e">>}

\* the side of the square the image is resized into
OcrSide == 2500

\* a / b rounded to the nearest integer
RoundDiv(a, b) == (2 * a + b) \div (2 * b)

\* sharp(buffer).resize(2500, 2500, {fit: 'inside', withoutEnlargement: false}):
\* the image scaled, up or down, so that its longer side is 2500 pixels
Resized(f) ==
    [width |-> RoundDiv(f.width * OcrSide, Max2(f.width, f.height)),
     height |-> RoundDiv(f.height * OcrSide, Max2(f.width, f.height))]

\* the file has a buffer (the controller passes req.file of memory storage);
\* preprocessForOCR resizes it or, when sharp rejects, returns the buffer itself
Preprocess ==
    /\ pc = "start"
    /\ pc' = "ocr1"
    /\ \E ok \in BOOLEAN :
          /\ trace' = Append(trace, IF ok THEN "preprocess" ELSE "preprocessFailed")
          /\ ocrImage' = IF ok THEN Resized(file) ELSE file
    /\ UNCHANGED <<file, ocrVars, pii, coordinates, maskVars, result, findVars>>

\* the OCR result as performOCRWithCoordinates returns it
OcrReturns(out) ==
    /\ ocrRaw' = out.text
    /\ text' = Trim(out.text)
    /\ words' = out.words
    /\ confidence' = out.confidence

\* Tesseract.recognize(buffer, "eng+hin", ocrOptions)
OcrFirst ==
    /\ pc = "ocr1"
    /\ \/ \E out \in OcrOutputs :
             /\ OcrReturns(out)
             /\ pc' = "check"
             /\ trace' = Append(trace, "ocr:eng+hin")
       \/ /\ pc' = "ocr2"
          /\ trace' = Append(trace, "ocrFailed:eng+hin")
          /\ UNCHANGED ocrVars
    /\ UNCHANGED <<file, ocrImage, pii, coordinates, maskVars, result, findVars>>

\* the error processImage throws when performOCRWithCoordinates throws
OcrError(m) ==
    [kind |-> "error",
     message |-> <<"I", "m", "a", "g", "e", " ", "p", "r", "o", "c", "e", "s", "s", "i", "n", "g", " ", "f", "a", "i", "l", "e", "d", ":", " ">>
                 \o <<"A", "l", "l", " ", "O", "C", "R", " ", "a", "t", "t", "e", "m", "p", "t", "s", " ", "f", "a", "i", "l", "e", "d", ":", " ">>
                 \o m]

\* a variant in which a second failure is swallowed and the request goes on
OcrSecond_FailureSwallowed ==
    /\ pc = "ocr2"
    /\ \/ \E out \in OcrOutputs :
             /\ OcrReturns(out)
             /\ pc' = "check"
             /\ trace' = Append(trace, "ocr:eng")
       \/ /\ pc' = "check"
          /\ trace' = Append(trace, "ocrFailed:eng")
          /\ UNCHANGED ocrVars
    /\ UNCHANGED <<file, ocrImage, pii, coordinates, maskVars, result, findVars>>

\* Tesseract.recognize(buffer, "eng", ocrOptions), after the first attempt failed
OcrSecond ==
    /\ pc = "ocr2"
    /\ \/ \E out \in OcrOutputs :
             /\ OcrReturns(out)
             /\ pc' = "check"
             /\ trace' = Append(trace, "ocr:eng")
             /\ UNCHANGED result
       \/ \E m \in OcrErrorMessages :
             /\ pc' = "done"
             /\ trace' = Append(trace, "ocrFailed:eng")
             /\ result' = OcrError(m)
             /\ UNCHANGED ocrVars
    /\ UNCHANGED <<file, ocrImage, pii, coordinates, maskVars, findVars>>

\* !ocrResult.text || ocrResult.text.trim().length === 0
IsEmptyText(t) == t = <<>> \/ Len(Trim(t)) = 0

EmptyTextResult ==
    [kind |-> "success",
     originalImage |-> "file.buffer",
     maskedImage |-> "file.buffer",
     detectedPII |-> getEmptyPII,
     message |-> [text |-> "No text detected in image. Try uploading a clearer image.",
                  n |-> 0],
     extractedText |-> <<>>,
     ocrConfig |-> [confidence |-> 0, languages |-> "none"]]

\* a check of the OCR text that lets an empty text through to the extraction
CheckText_NoShortCircuit ==
    /\ pc = "check"
    /\ pc' = "classify"
    /\ UNCHANGED <<file, ocrImage, ocrVars, pii, coordinates, maskVars, result, trace, findVars>>

\* the check of the OCR text: an empty text ends the request at once
CheckText ==
    /\ pc = "check"
    /\ IF IsEmptyText(text)
       THEN /\ pc' = "done"
            /\ result' = EmptyTextResult
       ELSE /\ pc' = "classify"
            /\ UNCHANGED result
    /\ UNCHANGED <<file, ocrImage, ocrVars, pii, coordinates, maskVars, trace, findVars>>

\* extractPIIWithCoordinates: getEmptyPII(), an empty list, detectDocumentType
Classify ==
    /\ pc = "classify"
    /\ pc' = "dob"
    /\ pii' = detectDocumentType(text, getEmptyPII)
    /\ coordinates' = <<>>
    /\ trace' = Append(trace, "detectDocumentType")
    /\ UNCHANGED <<file, ocrImage, ocrVars, maskVars, result, findVars>>

ExtractDOB ==
    /\ pc = "dob"
    /\ pc' = "aadhaar"
    /\ LET r == extractDOBWithCoordinates(text, words, pii, coordinates)
       IN  /\ pii' = r.pii
           /\ coordinates' = r.coordinates
           /\ trace' = trace \o Called("extractDOB", r.pii # pii)
    /\ UNCHANGED <<file, ocrImage, ocrVars, maskVars, result, findVars>>

ExtractPAN ==
    /\ pc = "pan"
    /\ pc' = "names"
    /\ LET r == extractPANWithCoordinates(text, words, pii, coordinates)
       IN  /\ pii' = r.pii
           /\ coordinates' = r.coordinates
           /\ trace' = trace \o Called("extractPAN", r.pii # pii)
    /\ UNCHANGED <<file, ocrImage, ocrVars, maskVars, result, findVars>>

ExtractNames ==
    /\ pc = "names"
    /\ pc' = "phone"
    /\ LET r == extractNamesWithCoordinates(text, words, pii, coordinates)
       IN  /\ pii' = r.pii
           /\ coordinates' = r.coordinates
           /\ trace' = trace \o Called("extractNames", r.pii # pii)
    /\ UNCHANGED <<file, ocrImage, ocrVars, maskVars, result, findVars>>

ExtractPhone ==
    /\ pc = "phone"
    /\ pc' = "photo"
    /\ LET r == extractPhoneWithCoordinates(text, words, pii, coordinates)
       IN  /\ pii' = r.pii
           /\ coordinates' = r.coordinates
           /\ trace' = trace \o Called("extractPhone", r.pii # pii)
    /\ UNCHANGED <<file, ocrImage, ocrVars, maskVars, result, findVars>>

\* if (pii.hasPhoto) coordinates.push(this.estimatePhotoRegion())
AddPhoto ==
    /\ pc = "photo"
    /\ pc' = "mask"
    /\ coordinates' = IF pii.hasPhoto THEN Append(coordinates, estimatePhotoRegion)
                      ELSE coordinates
    /\ trace' = Append(trace, "estimatePhotoRegion")
    /\ UNCHANGED <<file, ocrImage, ocrVars, pii, maskVars, result, findVars>>

\* Object.entries(pii).filter(([key, value]) => value !== null && value !== ''):
\* hasPhoto is a boolean and passes the filter whatever it is
foundPII(p) ==
    {key \in DOMAIN p : key = "hasPhoto" \/ (p[key] # Null /\ p[key] # <<>>)}

SuccessMessage(n) ==
    IF n > 0 THEN [text |-> "Successfully detected and masked N PII field(s)", n |-> n]
    ELSE [text |-> "No PII detected in the image", n |-> 0]

\* the value processImage returns after masking
Respond ==
    /\ pc = "respond"
    /\ pc' = "done"
    /\ result' =
          [kind |-> "success",
           originalImage |-> "file.buffer",
           maskedImage |-> IF masked = "jpeg" THEN "masked.jpeg" ELSE "file.buffer",
           detectedPII |-> pii,
           message |-> SuccessMessage(Cardinality(foundPII(pii))),
           extractedText |-> text,
           ocrConfig |-> [confidence |-> confidence, languages |-> "eng+hin",
                          maskedRegions |-> Len(coordinates)]]
    /\ UNCHANGED <<file, ocrImage, ocrVars, pii, coordinates, maskVars, trace, findVars>>

\* the substrings ImageController looks for in error.message
FileWords == {<<"f", "i", "l", "e">>, <<"b", "u", "f", "f", "e", "r">>}

OcrWordsOfError == {<<"O", "C", "R">>, <<"T", "e", "s", "s", "e", "r", "a", "c", "t">>}

SharpWords == {<<"S", "h", "a", "r", "p">>, <<"i", "m", "a", "g", "e", " ", "p", "r", "o", "c", "e", "s", "s", "i", "n", "g">>}

\* errorType and statusCode chosen from error.message
ErrorKind(message) ==
    IF IncludesAny(message, FileWords) THEN [errorType |-> "INVALID_FILE", status |-> 400]
    ELSE IF IncludesAny(message, OcrWordsOfError)
         THEN [errorType |-> "OCR_ERROR", status |-> 422]
    ELSE IF IncludesAny(message, SharpWords)
         THEN [errorType |-> "IMAGE_PROCESSING_ERROR", status |-> 422]
    ELSE [errorType |-> "PROCESSING_ERROR", status |-> 500]

\* response.ocrConfig.maskedRegions || 0
MaskedRegionsOr0(r) ==
    IF "maskedRegions" \in DOMAIN r.ocrConfig THEN r.ocrConfig.maskedRegions ELSE 0

\* the keys of detectedPII whose value is neither null nor '' nor false
piiTypes(p) ==
    {key \in DOMAIN p :
        IF key = "hasPhoto" THEN p[key] ELSE (p[key] # Null /\ p[key] # <<>>)}

\* ImageController after processImage returned or threw
Reply ==
    /\ pc = "done"
    /\ pc' = "replied"
    /\ response' =
          IF result.kind = "error"
          THEN [status |-> ErrorKind(result.message).status,
                success |-> FALSE,
                error |-> result.message,
                errorType |-> ErrorKind(result.message).errorType]
          ELSE [status |-> 200,
                success |-> TRUE,
                message |-> result.message,
                data |-> [originalImage |-> result.originalImage,
                          maskedImage |-> result.maskedImage,
                          detectedPII |-> result.detectedPII,
                          extractedText |-> result.extractedText,
                          processingInfo |->
                              [confidence |-> result.ocrConfig.confidence,
                               languages |-> result.ocrConfig.languages,
                               maskedRegions |-> MaskedRegionsOr0(result)],
                          privacySummary |->
                              [hasPII |-> piiTypes(result.detectedPII) # {},
                               piiTypes |-> piiTypes(result.detectedPII),
                               masked |-> MaskedRegionsOr0(result) > 0]]]
    /\ UNCHANGED <<file, ocrImage, ocrVars, pii, coordinates, maskVars, result, trace,
                   searchText, fuzzyMatch, requests, instance, scan>>

Init ==
    /\ pc = "request"
    /\ file \in {[width |-> n, height |-> n] : n \in RequestSizes} \cup {NoFile}
    /\ ocrRaw = <<>>
    /\ text = <<>>
    /\ words = <<>>
    /\ confidence = 0
    /\ pii = getEmptyPII
    /\ coordinates = <<>>
    /\ metadata = NoMetadata
    /\ overlays = <<>>
    /\ masked = "none"
    /\ result = NoResult
    /\ trace = <<>>
    /\ response = NoResponse
    /\ ocrImage = NoImage
    /\ requests = <<>>
    /\ instance = NewImageService
    /\ scan = NoScan
    /\ searchText = <<>>
    /\ fuzzyMatch = FALSE

Next ==
    \/ Receive
    \/ Preprocess
    \/ OcrFirst
    \/ OcrSecond
    \/ CheckText
    \/ Classify
    \/ ExtractDOB
    \/ ExtractAadhaar
    \/ ExtractPAN
    \/ ExtractNames
    \/ ExtractPhone
    \/ AddPhoto
    \/ CreateMaskedImage
    \/ Respond
    \/ Reply

Spec == Init /\ [][Next]_vars

(***************************************************************************)
(* Claims about processImage                                               *)
(***************************************************************************)
\* an OCR attempt of the request succeeded
OcrDone == \E i \in 1..Len(trace) : trace[i] \in {"ocr:eng+hin", "ocr:eng"}

\* the text the OCR engine returned is empty or whitespace only
BlankOcrText == \A i \in 1..Len(ocrRaw) : ocrRaw[i] \in {" ", "\n", "\t", "\r"}

\* the calls of the classifier, the extractors, the resolver and compositing
PipelineCalls ==
    {"detectDocumentType", "extractDOB", "extractAadhaar", "extractPAN",
     "extractNames", "extractPhone", "findTextCoordinates", "estimatePhotoRegion",
     "composite", "compositeFailed", "maskSkipped"}

PIIFields == {"name", "dob", "aadhaar", "address", "phone", "email", "pan",
              "fatherName", "documentType"}

\* C1: a request whose OCR text is empty or whitespace-only makes no
\* classifier, extractor, resolver or compositing call, produces no region
\* and no overlay, and returns the all-null record (hasPhoto false) with the
\* original image as the masked image; the result is the same for every
\* such request.
C1_EmptyTextShortCircuit ==
    (OcrDone /\ BlankOcrText) =>
        /\ pc \in {"check", "done", "replied"}
        /\ \A i \in 1..Len(trace) : trace[i] \notin PipelineCalls
        /\ coordinates = <<>>
        /\ overlays = <<>>
        /\ masked = "none"
        /\ pc \in {"done", "replied"} =>
              /\ result.kind = "success"
              /\ \A f \in PIIFields : result.detectedPII[f] = Null
              /\ result.detectedPII.hasPhoto = FALSE
              /\ result.maskedImage = result.originalImage
              /\ result.extractedText = <<>>
              /\ result.message.text
                    = "No text detected in image. Try uploading a clearer image."
              /\ result.ocrConfig = [confidence |-> 0, languages |-> "none"]

\* C1 witness: a request whose OCR text was whitespace only has returned
C1_Witness ==
    /\ pc = "done"
    /\ OcrDone
    /\ BlankOcrText
    /\ ocrRaw # <<>>
    /\ result.kind = "success"

\* C2 as claimed: when compositing fails for a request with at least one
\* region, the request ends in an error; it never returns success with the
\* original image as the masked image and maskedRegions > 0.
C2_CompositeFailureSurfaced ==
    (/\ pc = "done"
     /\ \E i \in 1..Len(trace) : trace[i] = "compositeFailed"
     /\ Len(coordinates) >= 1)
    => /\ result.kind = "error"
       /\ ~(/\ result.maskedImage = result.originalImage
            /\ result.ocrConfig.maskedRegions > 0)

(***************************************************************************)
(* extractPIIWithCoordinates on its own: texts that exercise the           *)
(* classifier and every field extractor                                    *)
(***************************************************************************)
\* lines with and without the keywords of detectDocumentType
KeywordLines ==
    {<<"I", "N", "C", "O", "M", "E", " ", "T", "A", "X", " ", "D", "E", "P", "A", "R", "T", "M", "E", "N", "T">>,
     <<"P", "e", "r", "m", "a", "n", "e", "n", "t", " ", "A", "c", "c", "o", "u", "n", "t", " ", "N", "u", "m", "b", "e", "r">>,
     <<"G", "o", "v", "e", "r", "n", "m", "e", "n", "t", " ", "o", "f", " ", "I", "n", "d", "i", "a", " ", "A", "A", "D", "H", "A", "A", "R">>,
     <<"U+0906", "U+0927", "U+093E", "U+0930">>,
     <<"u", "i", "d", "a", "i", ".", "g", "o", "v", ".", "i", "n">>,
     <<"D", "r", "i", "v", "i", "n", "g", " ", "L", "i", "c", "e", "n", "c", "e">>,
     <<"T", "r", "a", "n", "s", "p", "o", "r", "t", " ", "D", "e", "p", "t">>,
     <<"I", "d", "e", "n", "t", "i", "t", "y", " ", "c", "a", "r", "d">>}

\* dates that pass and dates that fail the validator, bare and labelled
DateFragments ==
    {<<"1", "5", "/", "0", "8", "/", "1", "9", "9", "0">>,
     <<"3", "2", "/", "0", "1", "/", "1", "9", "9", "0">>,
     <<"1", "/", "1", "/", "1", "9", "0", "0">>,
     <<"3", "1", "-", "1", "2", "-", "2", "0", "2", "5">>,
     <<"0", "1", ".", "1", "3", ".", "2", "0", "0", "0">>,
     <<"0", "0", "/", "0", "5", "/", "1", "9", "9", "9">>,
     <<"5", "/", "6", "/", "1", "8", "9", "9">>,
     <<"7", "/", "7", "/", "2", "0", "2", "7">>,
     <<"D", "O", "B", ":", "1", "5", "/", "0", "8", "/", "1", "9", "9", "0", "1">>,
     <<"D", "O", "B", " ", "4", "5", "/", "1", "1", "/", "1", "9", "9", "0">>,
     <<"d", "o", "b", ":", " ", "2", "/", "3", "/", "2", "0", "0", "1">>,
     <<"U+091C", "U+0928", "U+094D", "U+092E", " ", "U+0924", "U+093F", "U+0925", "U+093F", ":", " ", "0", "4", "/", "0", "5", "/", "2", "0", "0", "6">>,
     <<"1", "2", "/", "1", "2", "/", "1", "2">>,
     <<"x", "1", "5", "/", "0", "8", "/", "1", "9", "9", "0">>}

\* tax-ID numbers in upper and in lower case, alone and with a keyword
PanTexts ==
    {<<"A", "B", "C", "D", "E", "1", "2", "3", "4", "F">>,
     <<"a", "b", "c", "d", "e", "1", "2", "3", "4", "f">>,
     <<"P", "e", "r", "m", "a", "n", "e", "n", "t", " ", "A", "c", "c", "o", "u", "n", "t", " ", "N", "u", "m", "b", "e", "r", "\n", "A", "B", "C", "D", "E", "1", "2", "3", "4", "F">>,
     <<"p", "e", "r", "m", "a", "n", "e", "n", "t", " ", "a", "c", "c", "o", "u", "n", "t", "\n", "a", "b", "c", "d", "e", "1", "2", "3", "4", "f">>,
     <<"P", "A", "N", " ", "A", "B", "C", "D", "E", "1", "2", "3", "4", "F", " ", "X", "Y", "Z", "A", "B", "9", "8", "7", "6", "K">>,
     <<"a", "b", "c", "d", "e", "1", "2", "3", "4", "f", " ", "X", "Y", "Z", "A", "B", "9", "8", "7", "6", "K">>,
     <<"A", "B", "C", "D", "E", "1", "2", "3", "4", "F", "G">>,
     <<"A", "b", "C", "d", "E", "1", "2", "3", "4", "f">>}

\* phone numbers with and without the country code
PhoneTexts ==
    {<<"+", "9", "1", " ", "9", "8", "7", "6", "5", "4", "3", "2", "1", "0">>,
     <<"+", "9", "1", "9", "8", "7", "6", "5", "4", "3", "2", "1", "0">>,
     <<"+", "9", "1", "-", "9", "8", "7", "6", "5", "4", "3", "2", "1", "0">>,
     <<"P", "h", "+", "9", "1", "-", "9", "8", "7", "6", "5", "4", "3", "2", "1", "0">>,
     <<"M", "o", "b", "i", "l", "e", ":", " ", "+", "9", "1", " ", "9", "8", "7", "6", "5", "4", "3", "2", "1", "0">>,
     <<"9", "8", "7", "6", "5", "4", "3", "2", "1", "0">>,
     <<"5", "8", "7", "6", "5", "4", "3", "2", "1", "0">>,
     <<"9", "8", "7", "6", "5", "4", "3", "2", "1", "0", "1">>,
     <<"M", "o", "b", " ", "9", "8", "7", "6", "5", "4", "3", "2", "1", "0", " ", "t", "e", "l", "+", "9", "1", " ", "9", "1", "2", "3", "4", "5", "6", "7", "8", "9">>,
     <<"C", "a", "l", "l", " ", "+", "9", "1", " ", "5", "8", "7", "6", "5", "4", "3", "2", "1", "0">>,
     <<"6", "1", "2", "3", "4", "5", "6", "7", "8", "9", " ", "9", "8", "7", "6", "5", "4", "3", "2", "1", "0">>}

\* lines around a name: labels, candidates, and lines that are no names
NameLineSet ==
    {<<"N", "A", "M", "E">>,
     <<"N", "a", "m", "e", ":">>,
     <<"F", "a", "t", "h", "e", "r", "'", "s", " ", "N", "a", "m", "e">>,
     <<"J", "O", "H", "N", " ", "S", "M", "I", "T", "H">>,
     <<"X">>,
     <<>>,
     <<"I", "n", "c", "o", "m", "e", " ", "T", "a", "x", " ", "D", "e", "p", "a", "r", "t", "m", "e", "n", "t">>,
     <<"A", "B">>,
     <<"R", "4", "M", "|", " ", "K", ".">>,
     <<"S", "/", "O">>,
     <<"S", "u", "r", "n", "a", "m", "e", " ", "1">>}

\* texts with more than one father label
FatherTexts ==
    {<<"F", "a", "t", "h", "e", "r", "\n", "R", "A", "M", " ", "L", "A", "L", "\n", "S", "/", "O", "\n", "S", "H", "Y", "A", "M", " ", "L", "A", "L">>,
     <<"U+092A", "U+093F", "U+0924", "U+093E", "\n", "R", "A", "M", " ", "L", "A", "L", "\n", "s", "o", "n", " ", "o", "f", "\n", "A", "B", "\n", "f", "a", "t", "h", "e", "r", " ", "s", "/", "o", "\n", "M", "O", "H", "A", "N", " ", "D", "A", "S">>,
     <<"N", "A", "M", "E", "\n", "J", "O", "H", "N", " ", "S", "M", "I", "T", "H", "\n", "D", "O", "B", " ", "1", "5", "/", "0", "8", "/", "1", "9", "9", "0">>,
     <<"N", "a", "m", "e", "\n", "R", "A", "V", "I", " ", "K", "U", "M", "A", "R", "\n", "F", "a", "t", "h", "e", "r", " ", "N", "a", "m", "e", "\n", "R", "A", "M", " ", "L", "A", "L", "\n", "F", "a", "t", "h", "e", "r", "\n", "R", "A", "M", " ", "L", "A", "L">>}

\* a candidate line of n letters
Letters(n) == [i \in 1..n |-> <<"N", "A", "M", "E">>[((i - 1) % 4) + 1]]

\* candidates just below, at, and above the length limit of a name
LongNameTexts ==
    {<<"N", "a", "m", "e">> \o <<"\n">> \o Letters(n) :
        n \in (MaxNameLength - 1)..(MaxNameLength + MaxNameExcess)}

\* a national ID next to a shorter number made of digits of it
IdTexts ==
    {<<"2", "3", "4", "5", "6", "7", "8", "9", "0", "1", "2", "3">>,
     <<"2", "3", "4", "5", "6", "7", "8", "9", "0", "1", "2", "3", " ", "6", "7", "8", "9">>,
     <<"I", "D", ":", "2", "3", "4", "5", "6", "7", "8", "9", "0", "1", "2", "3", "\n", "D", "O", "B", " ", "1", "5", "/", "0", "8", "/", "1", "9", "9", "0">>}

ExtractTexts ==
    {k1 \o <<"\n">> \o k2 : k1 \in KeywordLines, k2 \in KeywordLines}
    \cup IdTexts
    \cup DateFragments
    \cup {d1 \o <<" ">> \o d2 : d1 \in DateFragments, d2 \in DateFragments}
    \cup PanTexts
    \cup PhoneTexts
    \cup {l1 \o <<"\n">> \o l2 \o <<"\n">> \o l3 :
             l1 \in NameLineSet, l2 \in NameLineSet, l3 \in NameLineSet}
    \cup FatherTexts
    \cup LongNameTexts

InitExtract ==
    /\ pc = "classify"
    /\ ocrRaw \in ExtractTexts
    /\ text = Trim(ocrRaw)
    /\ text # <<>>
    /\ words \in {<<>>, OcrWords(text)}
    /\ confidence = 0
    /\ file = [width |-> ScenarioImage, height |-> ScenarioImage]
    /\ pii = getEmptyPII
    /\ coordinates = <<>>
    /\ metadata = NoMetadata
    /\ overlays = <<>>
    /\ masked = "none"
    /\ result = NoResult
    /\ trace = <<>>
    /\ response = NoResponse
    /\ ocrImage = NoImage
    /\ requests = <<>>
    /\ instance = NewImageService
    /\ scan = NoScan
    /\ searchText = <<>>
    /\ fuzzyMatch = FALSE

NextExtract ==
    \/ Classify
    \/ ExtractDOB
    \/ ExtractAadhaar
    \/ ExtractPAN
    \/ ExtractNames
    \/ ExtractPhone
    \/ AddPhoto

SpecExtract == InitExtract /\ [][NextExtract]_vars

(***************************************************************************)
(* Claims about the classifier and the field extractors                    *)
(***************************************************************************)
\* the case-folded text contains the keyword
Mentions(kw) == Includes(ToLowerCase(text), kw)

MentionsPan == Mentions(<<"i", "n", "c", "o", "m", "e", " ", "t", "a", "x">>) \/ Mentions(<<"p", "e", "r", "m", "a", "n", "e", "n", "t", " ", "a", "c", "c", "o", "u", "n", "t">>)

MentionsAadhaar == Mentions(<<"a", "a", "d", "h", "a", "a", "r">>) \/ Mentions(<<"U+0906", "U+0927", "U+093E", "U+0930">>) \/ Mentions(<<"u", "i", "d", "a", "i">>)

MentionsLicence == Mentions(<<"d", "r", "i", "v", "i", "n", "g", " ", "l", "i", "c", "e", "n", "c", "e">>) \/ Mentions(<<"t", "r", "a", "n", "s", "p", "o", "r", "t">>)

\* C12: once the classifier has run, the document type is that of the first
\* keyword set found in the case-folded text, PAN before Aadhaar before
\* driving licence, and the generic government ID when none is found;
\* hasPhoto is true in every case.
C12_FirstKeywordSetWins ==
    pc # "classify" =>
        /\ pii.hasPhoto = TRUE
        /\ MentionsPan => pii.documentType = <<"PAN Card">>
        /\ (~MentionsPan /\ MentionsAadhaar) => pii.documentType = <<"Aadhaar Card">>
        /\ (~MentionsPan /\ ~MentionsAadhaar /\ MentionsLicence)
              => pii.documentType = <<"Driving License">>
        /\ (~MentionsPan /\ ~MentionsAadhaar /\ ~MentionsLicence)
              => pii.documentType = <<"Government ID">>

\* C12 witness: a text with a PAN and an Aadhaar keyword was classified PAN
C12_Witness ==
    /\ pc # "classify"
    /\ MentionsPan
    /\ MentionsAadhaar
    /\ pii.documentType = <<"PAN Card">>

\* the steps of extractPIIWithCoordinates in order, and the positions after
\* a given step has run
StepsInOrder == <<"classify", "dob", "aadhaar", "pan", "names", "phone", "photo", "mask">>

After(step) ==
    LET at(x) == CHOOSE i \in 1..Len(StepsInOrder) : StepsInOrder[i] = x
    IN  pc \in {StepsInOrder[i] : i \in (at(step) + 1)..Len(StepsInOrder)}

IsLetter(c) == c \in Range(UpperLetters) \cup Range(LowerLetters)

\* 5 letters + 4 digits + 1 letter of either case at position i, between
\* word boundaries
TaxIdAt(s, i) ==
    /\ i + 9 <= Len(s)
    /\ WordBoundary(s, i)
    /\ \A k \in i..(i + 4) : IsLetter(s[k])
    /\ \A k \in (i + 5)..(i + 8) : IsDigit(s[k])
    /\ IsLetter(s[i + 9])
    /\ WordBoundary(s, i + 10)

\* the first tax ID of the text in text order, in either case, or null
FirstTaxId(s) ==
    LET at == {i \in 1..Len(s) : TaxIdAt(s, i)}
    IN  IF at = {} THEN Null
        ELSE LET i == CHOOSE i \in at : \A j \in at : i <= j IN SubSeq(s, i, i + 9)

\* C13 as claimed: the tax-ID extractor matches 5 letters + 4 digits + 1
\* letter case-insensitively and takes the first match in text order, so
\* ABCDE1234F and abcde1234f both set the pan field.
C13_PanCaseInsensitive ==
    After("pan") => pii.pan = FirstTaxId(text)

\* the positions of the separators of a matched date
SepsOf(g) == {i \in 1..Len(g) : IsDateSep(g[i])}

\* day, month and year of a matched date d{1,2} sep d{1,2} sep dddd
DayOf(g) == ParseInt(SubSeq(g, 1, MinOf(SepsOf(g)) - 1))

MonthOf(g) == ParseInt(SubSeq(g, MinOf(SepsOf(g)) + 1, MaxOf(SepsOf(g)) - 1))

YearOf(g) == ParseInt(SubSeq(g, MaxOf(SepsOf(g)) + 1, Len(g)))

\* day in 1..31, month in 1..12, year in 1900..current year
DateInRange(g) ==
    /\ DayOf(g) \in 1..31
    /\ MonthOf(g) \in 1..12
    /\ YearOf(g) \in 1900..CurrentYear

\* the positions of the text at which the pattern matches a date in range
ValidDatesOf(pat) ==
    {i \in 1..Len(text) :
        /\ PatternAt(pat, text, i).start # 0
        /\ DateInRange(PatternAt(pat, text, i).group)}

\* the date at the leftmost of the positions
LeftmostDate(pat, at) == PatternAt(pat, text, MinOf(at)).group

\* the first date in range of the first listed pattern that has one, or null
ExpectedDob ==
    IF ValidDatesOf("dob1") # {} THEN LeftmostDate("dob1", ValidDatesOf("dob1"))
    ELSE IF ValidDatesOf("dob2") # {} THEN LeftmostDate("dob2", ValidDatesOf("dob2"))
    ELSE IF ValidDatesOf("dob3") # {} THEN LeftmostDate("dob3", ValidDatesOf("dob3"))
    ELSE Null

\* C14: the date-of-birth extractor tries its patterns in listed order and,
\* within a pattern, the matches in text order; dob is the first match whose
\* day is in 1..31, month in 1..12 and year in 1900..current year, matches
\* that fail are skipped, and dob stays null when no match is in range.
C14_FirstValidatedDate ==
    After("dob") => pii.dob = ExpectedDob

\* C14 witness: the first pattern matched a date out of range, which was
\* skipped, and a later date in range, which became dob
C14_Witness ==
    /\ After("dob")
    /\ \E i \in 1..Len(text) :
          /\ PatternAt("dob1", text, i).start # 0
          /\ ~DateInRange(PatternAt("dob1", text, i).group)
          /\ \E j \in ValidDatesOf("dob1") : i < j
    /\ pii.dob # Null
    /\ pii.dob = ExpectedDob

\* the cleaned candidate is acceptable as a name: its length is strictly
\* between 2 and 50 and it holds none of 'income', 'tax', 'department'
AcceptableName(c) ==
    /\ Len(c) > 2
    /\ Len(c) < 50
    /\ ~Includes(ToLowerCase(c), <<"i", "n", "c", "o", "m", "e">>)
    /\ ~Includes(ToLowerCase(c), <<"t", "a", "x">>)
    /\ ~Includes(ToLowerCase(c), <<"d", "e", "p", "a", "r", "t", "m", "e", "n", "t">>)

\* the lines (trimmed, longer than one character) that hold 'name' but not
\* 'father' and are followed by a line that cleans to an acceptable name
NameLabelsOf(lines) ==
    {i \in 1..(Len(lines) - 1) :
        /\ Includes(ToLowerCase(lines[i]), <<"n", "a", "m", "e">>)
        /\ ~Includes(ToLowerCase(lines[i]), <<"f", "a", "t", "h", "e", "r">>)
        /\ AcceptableName(cleanName(lines[i + 1]))}

NameAfterFirstLabel(lines) ==
    IF NameLabelsOf(lines) = {} THEN Null
    ELSE cleanName(lines[MinOf(NameLabelsOf(lines)) + 1])

ScenarioA == <<"N", "A", "M", "E", "\n", "J", "O", "H", "N", " ", "S", "M", "I", "T", "H", "\n", "D", "O", "B", " ", "1", "5", "/", "0", "8", "/", "1", "9", "9", "0">>

\* C15: name is the cleaned line after the first line, in text order, that
\* holds 'name' but not 'father' and whose cleaned next line has a length
\* strictly between 2 and 50 and none of 'income', 'tax', 'department' (the
\* lines being the trimmed lines of more than one character), and null when
\* there is no such line; for NAME / JOHN SMITH / DOB 15/08/1990 the result
\* is name = JOHN SMITH and dob = 15/08/1990.
C15_NameAfterFirstLabel ==
    After("names") =>
        /\ pii.name = NameAfterFirstLabel(NameLines(text))
        /\ text = ScenarioA =>
              /\ pii.name = <<"J", "O", "H", "N", " ", "S", "M", "I", "T", "H">>
              /\ pii.dob = <<"1", "5", "/", "0", "8", "/", "1", "9", "9", "0">>

\* C15 witness: the extraction of NAME / JOHN SMITH / DOB 15/08/1990 is over
\* and found both fields
C15_Witness ==
    /\ pc = "mask"
    /\ text = ScenarioA
    /\ words # <<>>
    /\ pii.name = <<"J", "O", "H", "N", " ", "S", "M", "I", "T", "H">>
    /\ pii.dob = <<"1", "5", "/", "0", "8", "/", "1", "9", "9", "0">>

\* the line holds a father-indicator token
FatherLabel(line) ==
    \/ Includes(ToLowerCase(line), <<"f", "a", "t", "h", "e", "r">>)
    \/ Includes(ToLowerCase(line), <<"U+092A", "U+093F", "U+0924", "U+093E">>)
    \/ Includes(ToLowerCase(line), <<"s", "/", "o">>)
    \/ Includes(ToLowerCase(line), <<"s", "o", "n", " ", "o", "f">>)

\* the father-label lines followed by a line that cleans to an acceptable name
FatherLabelsOf(lines) ==
    {i \in 1..(Len(lines) - 1) :
        FatherLabel(lines[i]) /\ AcceptableName(cleanName(lines[i + 1]))}

\* the candidate after the earliest such line
FirstFather(lines) == cleanName(lines[MinOf(FatherLabelsOf(lines)) + 1])

\* the extractors run one after the other on the text with word list ws
ThenAadhaar(r, ws) == extractAadhaarWithCoordinates(text, ws, r.pii, r.coordinates)

ThenPan(r, ws) == extractPANWithCoordinates(text, ws, r.pii, r.coordinates)

ThenName(r, ws) == ExtractName(text, ws, r.pii, r.coordinates)

ThenNames(r, ws) == extractNamesWithCoordinates(text, ws, r.pii, r.coordinates)

ThenPhone(r, ws) == extractPhoneWithCoordinates(text, ws, r.pii, r.coordinates)

UpToPan(ws) ==
    ThenPan(ThenAadhaar(extractDOBWithCoordinates(text, ws,
                            detectDocumentType(text, getEmptyPII), <<>>), ws), ws)

\* the regions present once the name, but not yet the father's name, was sought
RegionsUpToName == ThenName(UpToPan(words), words).coordinates

\* C16 as claimed: fatherName is the candidate that follows the earliest line
\* with a father-indicator token and a valid candidate after it, or null, and
\* regions are added for that candidate only.
C16_FirstFatherWins ==
    pc = "phone" =>
        IF FatherLabelsOf(NameLines(text)) = {}
        THEN /\ pii.fatherName = Null
             /\ coordinates = RegionsUpToName
        ELSE /\ pii.fatherName = FirstFather(NameLines(text))
             /\ coordinates = RegionsUpToName
                    \o findTextCoordinates(FirstFather(NameLines(text)), words, TRUE)

\* the position after a country-code-prefixed number that starts at i: +91,
\* an optional space or hyphen, 10 digits, then no further word character;
\* 0 when there is none
PrefixedEnd(s, i) ==
    IF ~LiteralAt(s, i, <<"+", "9", "1">>) THEN 0
    ELSE IF /\ CharAt(s, i + 3) \in {" ", "\n", "\t", "\r", "-"}
            /\ DigitsAt(s, i + 4, 10)
            /\ ~IsWordChar(CharAt(s, i + 14))
         THEN i + 14
    ELSE IF DigitsAt(s, i + 3, 10) /\ ~IsWordChar(CharAt(s, i + 13)) THEN i + 13
    ELSE 0

\* a bare 10-digit number beginning with 6..9 stands at i
BareAt(s, i) ==
    /\ ~IsWordChar(CharAt(s, i - 1))
    /\ CharAt(s, i) \in {"6", "7", "8", "9"}
    /\ DigitsAt(s, i, 10)
    /\ ~IsWordChar(CharAt(s, i + 10))

PrefixedStarts(s) == {i \in 1..Len(s) : PrefixedEnd(s, i) # 0}

BareStarts(s) == {i \in 1..Len(s) : BareAt(s, i)}

\* the first prefixed number of the text, else the first bare one, else null
ExpectedPhone(s) ==
    IF PrefixedStarts(s) # {}
    THEN SubSeq(s, MinOf(PrefixedStarts(s)), PrefixedEnd(s, MinOf(PrefixedStarts(s))) - 1)
    ELSE IF BareStarts(s) # {}
    THEN SubSeq(s, MinOf(BareStarts(s)), MinOf(BareStarts(s)) + 9)
    ELSE Null

\* C17 as claimed: the phone extractor accepts a country-code-prefixed number
\* wherever it stands in the text, at its start or after whitespace too, and
\* otherwise a bare 10-digit number beginning with 6..9; the prefixed pattern
\* is tried over the whole text first and the first match sets phone.
C17_PrefixedPhoneAnywhere ==
    After("phone") => pii.phone = ExpectedPhone(text)

\* the whole of extractPIIWithCoordinates, before the photo region is added,
\* on the text with word list ws
Extracted(ws) == ThenPhone(ThenNames(UpToPan(ws), ws), ws)

\* word lists the same text may come with: none, the words of the text, and
\* the words of the text without the first of them
OtherWordLists ==
    {<<>>, OcrWords(text), SubSeq(OcrWords(text), 2, Len(OcrWords(text)))}

\* C18: the PII record depends only on the text: whatever the word list, the
\* record is the one every other word list (the empty one included) gives; and
\* with the empty word list the matched fields are reported while the only
\* region is the estimated photo rectangle.
C18_RecordIndependentOfWords ==
    pc = "mask" =>
        /\ \A ws \in OtherWordLists : pii = Extracted(ws).pii
        /\ words = <<>> => coordinates = <<estimatePhotoRegion>>

C18_Witness ==
    /\ pc = "mask"
    /\ words = <<>>
    /\ pii.dob # Null
    /\ pii.name # Null
    /\ Extracted(OcrWords(text)).coordinates # <<>>
    /\ coordinates = <<estimatePhotoRegion>>

(***************************************************************************)
(* The national-ID extractor on its own                                    *)
(***************************************************************************)
Group1 == {<<"1", "2", "3", "4">>, <<"2", "3", "4", "5">>, <<"0", "9", "8", "7">>}

Group2 == {<<"5", "6", "7", "8">>}

Group3 == {<<"9", "0", "1", "2">>}

Separators == {<<>>, <<" ">>, <<"-">>}

Prefixes == {<<>>, <<"U", "I", "D", ":">>, <<"4", "2", " ">>}

Suffixes == {<<>>, <<"\n", "9", "8", "7", "6", "5", "4", "3", "2", "1", "0", "9", "8">>,
             <<" ", "x">>}

\* a 12-digit number written ungrouped, in groups of 4 with spaces or in
\* groups of 4 with hyphens, alone or with other text around it
AadhaarTexts ==
    {pre \o g1 \o s1 \o g2 \o s2 \o g3 \o post :
        pre \in Prefixes, g1 \in Group1, s1 \in Separators, g2 \in Group2,
        s2 \in Separators, g3 \in Group3, post \in Suffixes}

InitAadhaar ==
    /\ pc = "aadhaar"
    /\ file \in [width : {LargeImage}, height : {LargeImage}]
    /\ text \in AadhaarTexts
    /\ ocrRaw = text
    /\ words \in {<<>>, OcrWords(text)}
    /\ confidence = 0
    /\ pii = getEmptyPII
    /\ coordinates = <<>>
    /\ metadata = NoMetadata
    /\ overlays = <<>>
    /\ masked = "none"
    /\ result = NoResult
    /\ trace = <<>>
    /\ response = NoResponse
    /\ ocrImage = NoImage
    /\ requests = <<>>
    /\ instance = NewImageService
    /\ scan = NoScan
    /\ searchText = <<>>
    /\ fuzzyMatch = FALSE

NextAadhaar == ExtractAadhaar

SpecAadhaar == InitAadhaar /\ [][NextAadhaar]_vars

(***************************************************************************)
(* Claims about the national-ID extractor                                  *)
(***************************************************************************)
RECURSIVE OnlyDigits(_)
\* the text with every non-digit character removed
OnlyDigits(s) ==
    IF s = <<>> THEN <<>>
    ELSE IF IsDigit(Head(s)) THEN <<Head(s)>> \o OnlyDigits(Tail(s))
         ELSE OnlyDigits(Tail(s))

\* the start positions of the 12-digit substrings of the digit-only text
CandidateStarts(s) == 1..(Len(OnlyDigits(s)) - 11)

CandidateAt(s, i) == SubSeq(OnlyDigits(s), i, i + 11)

StartsWith01(num) == num[1] \in {"0", "1"}

\* C3: the aadhaar field is never a 12-digit string whose first digit is 0
\* or 1, and when every 12-digit candidate of the text starts with 0 or 1
\* the field stays null and the extractor adds no region.
C3_NoAadhaarStartingWith01 ==
    /\ pii.aadhaar # Null => (Len(pii.aadhaar) = 12 /\ ~StartsWith01(pii.aadhaar))
    /\ (/\ pc = "pan"
        /\ \A i \in CandidateStarts(text) : StartsWith01(CandidateAt(text, i)))
       => (pii.aadhaar = Null /\ coordinates = <<>>)

\* C3 witness: the extractor has run on a text holding the ungrouped 12-digit
\* number 123456789012, whose words are known, and left the field null
C3_Witness ==
    /\ pc = "pan"
    /\ Includes(text, <<"1", "2", "3", "4", "5", "6", "7", "8", "9", "0", "1", "2">>)
    /\ \A i \in CandidateStarts(text) : StartsWith01(CandidateAt(text, i))
    /\ words # <<>>
    /\ pii.aadhaar = Null

\* the first 12-digit substring of the digit-only text whose first digit is
\* neither 0 nor 1, or null
FirstValidCandidate(s) ==
    LET ok == {i \in CandidateStarts(s) : ~StartsWith01(CandidateAt(s, i))}
    IN  IF ok = {} THEN Null
        ELSE CandidateAt(s, CHOOSE i \in ok : \A j \in ok : i <= j)

\* C4 as claimed: the extractor accepts the first 12-digit substring of the
\* digit-only text that starts with neither 0 nor 1, however it is grouped.
C4_AadhaarAnyGrouping ==
    pc = "pan" => pii.aadhaar = FirstValidCandidate(text)

(***************************************************************************)
(* createMaskedImage on its own: any region list, any image size           *)
(***************************************************************************)
\* left and top of the regions tried
RegionPos == {PosStep * k : k \in (0 - MaxPosK)..MaxPosK}

\* width and height of the regions tried; a negative one is an inverted box
RegionSize == {SizeStep * k : k \in (0 - 1)..MaxSizeK}

MaskRegions ==
    {[left |-> l, top |-> t, width |-> w, height |-> h] :
        l \in RegionPos, t \in RegionPos, w \in RegionSize, h \in RegionSize}

MaskInputs ==
    {<<>>} \cup {<<r>> : r \in MaskRegions}
           \cup {<<r, estimatePhotoRegion>> : r \in MaskRegions}

InitMask ==
    /\ pc = "mask"
    /\ file \in [width : ImageSizes, height : ImageSizes]
    /\ coordinates \in MaskInputs
    /\ ocrRaw = <<>>
    /\ text = <<>>
    /\ words = <<>>
    /\ confidence = 0
    /\ pii = getEmptyPII
    /\ metadata = NoMetadata
    /\ overlays = <<>>
    /\ masked = "none"
    /\ result = NoResult
    /\ trace = <<>>
    /\ response = NoResponse
    /\ ocrImage = NoImage
    /\ requests = <<>>
    /\ instance = NewImageService
    /\ scan = NoScan
    /\ searchText = <<>>
    /\ fuzzyMatch = FALSE

NextMask == CreateMaskedImage

SpecMask == InitMask /\ [][NextMask]_vars

(***************************************************************************)
(* Claims about createMaskedImage                                          *)
(***************************************************************************)
\* the region padded by Padding on every side, as half-open intervals
PaddedLeft(r) == r.left - Padding

PaddedTop(r) == r.top - Padding

PaddedRight(r) == r.left + r.width + Padding

PaddedBottom(r) == r.top + r.height + Padding

WellFormed(r) == r.width >= 0 /\ r.height >= 0

\* the padded region lies entirely outside the image on some side
PaddedOutside(r, width, height) ==
    \/ PaddedRight(r) <= 0
    \/ PaddedBottom(r) <= 0
    \/ PaddedLeft(r) >= width
    \/ PaddedTop(r) >= height

\* the intersection of the padded region with the image rectangle
Intersection(r, width, height) ==
    [left |-> Max2(0, PaddedLeft(r)), top |-> Max2(0, PaddedTop(r)),
     width |-> Min2(width, PaddedRight(r)) - Max2(0, PaddedLeft(r)),
     height |-> Min2(height, PaddedBottom(r)) - Max2(0, PaddedTop(r))]

\* the padded region crosses an edge of the image and still meets the image
PartiallyOutside(r, width, height) ==
    /\ ~PaddedOutside(r, width, height)
    /\ \/ PaddedLeft(r) < 0
       \/ PaddedTop(r) < 0
       \/ PaddedRight(r) > width
       \/ PaddedBottom(r) > height

OverlayRect(o) == [left |-> o.left, top |-> o.top, width |-> o.width, height |-> o.height]

\* C8: every overlay handed to composite lies inside the image and has
\* positive width and height: left >= 0, top >= 0, width > 0, height > 0,
\* left + width <= imageWidth, top + height <= imageHeight.
C8_OverlaysInsideImage ==
    \A i \in 1..Len(overlays) :
        LET o == overlays[i]
        IN  /\ metadata.known
            /\ o.left >= 0
            /\ o.top >= 0
            /\ o.width > 0
            /\ o.height > 0
            /\ o.left + o.width <= metadata.width
            /\ o.top + o.height <= metadata.height

\* C8 witness: an overlay was built from a region that reaches past the right
\* and the bottom edge of the image and was cut to fit
C8_Witness ==
    \E i \in 1..Len(overlays) :
        LET o == overlays[i]
            r == coordinates[o.region]
        IN  /\ PaddedRight(r) > metadata.width
            /\ PaddedBottom(r) > metadata.height
            /\ o.left + o.width = metadata.width
            /\ o.top + o.height = metadata.height

\* C9 as claimed: a well-formed region whose padded rectangle lies entirely
\* outside the image, on whichever side, produces no overlay.
C9_OutsideRegionDropped ==
    metadata.known =>
        \A i \in 1..Len(overlays) :
            LET r == coordinates[overlays[i].region]
            IN  WellFormed(r) => ~PaddedOutside(r, metadata.width, metadata.height)

\* a box as the OCR engine reports them: inside the first quadrant
OcrBox(r) == r.left >= 0 /\ r.top >= 0 /\ r.width >= 0 /\ r.height >= 0

\* C10 as claimed, for the boxes the OCR engine can report: for a region
\* partially outside the image the overlay is exactly the intersection of
\* the region padded by 10 pixels with the image rectangle, whichever edge
\* the padded region crosses.
C10_OverlayIsIntersection ==
    metadata.known =>
        \A k \in 1..Len(coordinates) :
            LET r == coordinates[k]
            IN  (OcrBox(r) /\ PartiallyOutside(r, metadata.width, metadata.height))
                => \E i \in 1..Len(overlays) :
                      /\ overlays[i].region = k
                      /\ OverlayRect(overlays[i])
                           = Intersection(r, metadata.width, metadata.height)

(***************************************************************************)
(* findTextCoordinates on its own                                          *)
(***************************************************************************)
FindStep ==
    /\ pc = "find"
    /\ pc' = "found"
    /\ coordinates' = findTextCoordinates(searchText, words, fuzzyMatch)
    /\ trace' = Append(trace, "findTextCoordinates")
    /\ UNCHANGED <<file, ocrImage, ocrVars, pii, maskVars, result, findVars>>

SeqsUpTo(S, n) == UNION {[1..k -> S] : k \in 0..n}

BoxA == [x0 |-> 10, y0 |-> 20, x1 |-> 50, y1 |-> 32]

BoxB == [x0 |-> 40, y0 |-> 10, x1 |-> 90, y1 |-> 28]

ExactWordTexts ==
    {<<"1", "2", "3", "4">>, <<"5", "6", "7", "8">>, <<"9", "0", "1", "2">>,
     <<"I", "d", "1", "2", "3", "4">>, <<>>}

ExactWords == {[text |-> t, bbox |-> b] : t \in ExactWordTexts, b \in {BoxA, BoxB}}

ExactTargets ==
    {<<"1", "2", "3", "4", " ", "5", "6", "7", "8", " ", "9", "0", "1", "2">>,
     <<"I", "D", "1", "2", "3", "4", " ", " ", "5", "6", "7", "8", "\n", "9", "0", "1", "2">>,
     <<"5", "6", "7", "8", " ", "9", "0", "1", "2">>,
     <<"9", "0", "1", "2">>}

FuzzyAlphabet == {"a", "b", "c", "."}

FuzzyWordTexts == SeqsUpTo(FuzzyAlphabet, MaxFuzzyLen) \ {<<>>}

FuzzyTargets ==
    {<<"a", "b">>, <<"a", "b", "c">>, <<"a", "b", "c", "a">>, <<"c", "a", "b", "b">>}

InitFind ==
    /\ pc = "find"
    /\ \/ /\ fuzzyMatch = FALSE
          /\ searchText \in ExactTargets
          /\ words \in SeqsUpTo(ExactWords, MaxWords)
       \/ /\ fuzzyMatch = TRUE
          /\ searchText \in FuzzyTargets
          /\ words \in {<<[text |-> t, bbox |-> BoxA]>> : t \in FuzzyWordTexts}
    /\ file \in [width : {LargeImage}, height : {LargeImage}]
    /\ ocrRaw = <<>>
    /\ text = <<>>
    /\ confidence = 0
    /\ pii = getEmptyPII
    /\ coordinates = <<>>
    /\ metadata = NoMetadata
    /\ overlays = <<>>
    /\ masked = "none"
    /\ result = NoResult
    /\ trace = <<>>
    /\ response = NoResponse
    /\ ocrImage = NoImage
    /\ requests = <<>>
    /\ instance = NewImageService
    /\ scan = NoScan

NextFind == FindStep

SpecFind == InitFind /\ [][NextFind]_vars

(***************************************************************************)
(* Claims about findTextCoordinates                                        *)
(***************************************************************************)
RECURSIVE TokensRec(_, _, _, _)
TokensRec(s, i, cur, acc) ==
    LET flushed == IF cur = <<>> THEN acc ELSE Append(acc, cur)
    IN  IF i > Len(s) THEN flushed
        ELSE IF IsSpace(s[i]) THEN TokensRec(s, i + 1, <<>>, flushed)
        ELSE TokensRec(s, i + 1, Append(cur, s[i]), acc)

\* the whitespace-separated tokens of a target
WhitespaceTokens(s) == TokensRec(s, 1, <<>>, <<>>)

\* the word's text contains the token, case-insensitively
ContainsCI(word, token) ==
    word.text # <<>> /\ Includes(ToLowerCase(word.text), ToLowerCase(token))

\* every token is contained in the corresponding word i, i+1, ..., i+n-1
RunAt(toks, ws, i) ==
    /\ i + Len(toks) - 1 <= Len(ws)
    /\ \A j \in 1..Len(toks) : ContainsCI(ws[i + j - 1], toks[j])

\* the union of the boxes of words i..j as a rectangle
UnionOfBoxes(ws, i, j) ==
    LET x0 == MinOf({ws[k].bbox.x0 : k \in i..j})
        y0 == MinOf({ws[k].bbox.y0 : k \in i..j})
        x1 == MaxOf({ws[k].bbox.x1 : k \in i..j})
        y1 == MaxOf({ws[k].bbox.y1 : k \in i..j})
    IN  [left |-> x0, top |-> y0, width |-> x1 - x0, height |-> y1 - y0]

\* C5: in exact mode, a target of three tokens that are contained in three
\* consecutive words i, i+1, i+2 gets the union of the three word boxes as a
\* rectangle, and when no other word contains the first token that
\* rectangle is the whole result.
C5_ExactRunUnion ==
    (pc = "found" /\ ~fuzzyMatch /\ Len(WhitespaceTokens(searchText)) = 3) =>
        LET toks == WhitespaceTokens(searchText)
        IN  \A i \in 1..Len(words) :
                RunAt(toks, words, i) =>
                    /\ \E k \in 1..Len(coordinates) :
                           coordinates[k] = UnionOfBoxes(words, i, i + 2)
                    /\ (\A k \in 1..Len(words) :
                           ContainsCI(words[k], toks[1]) => k = i)
                       => coordinates = <<UnionOfBoxes(words, i, i + 2)>>

\* C5 witness: the three tokens sit in three consecutive words whose boxes
\* differ, and the result is the single rectangle enclosing them
C5_Witness ==
    /\ pc = "found"
    /\ ~fuzzyMatch
    /\ Len(WhitespaceTokens(searchText)) = 3
    /\ Len(words) = 3
    /\ RunAt(WhitespaceTokens(searchText), words, 1)
    /\ words[1].bbox # words[2].bbox
    /\ Len(coordinates) = 1
    /\ coordinates[1].width = 80
    /\ coordinates[1].height = 22

\* the start positions at which every token of the target is matched
FullRuns(toks, ws) == {i \in 1..Len(ws) : RunAt(toks, ws, i)}

\* C6 as claimed: for a multi-token target exact mode emits a rectangle for
\* start i only if every token is contained in words i..i+n-1, so there are
\* no more rectangles than fully matched starts.
C6_RectangleOnlyForFullRun ==
    (pc = "found" /\ ~fuzzyMatch /\ Len(WhitespaceTokens(searchText)) >= 2) =>
        Len(coordinates) <= Cardinality(FullRuns(WhitespaceTokens(searchText), words))

\* the number of positions at which two strings of the same length differ
Substitutions(a, b) == Cardinality({i \in 1..Len(a) : a[i] # b[i]})

\* made of lower-case letters only: lower-casing and stripping change nothing
Plain(s) == \A i \in 1..Len(s) : s[i] \in Range(LowerLetters)

\* the strings one insertion, deletion or substitution away from a string of S
OneEdit(S) ==
    S \cup UNION {{[s EXCEPT ![i] = c] : i \in 1..Len(s), c \in FuzzyAlphabet} : s \in S}
      \cup UNION {{SubSeq(s, 1, i - 1) \o SubSeq(s, i + 1, Len(s)) : i \in 1..Len(s)} : s \in S}
      \cup UNION {{SubSeq(s, 1, i) \o <<c>> \o SubSeq(s, i + 1, Len(s)) :
                     i \in 0..Len(s), c \in FuzzyAlphabet} : s \in S}

\* b is at most two single-character edits away from a
WithinTwoEdits(a, b) == b \in OneEdit(OneEdit({a}))

\* the case C7 is about: one word, of the target's length, both plain
FuzzyCase ==
    /\ pc = "found"
    /\ fuzzyMatch
    /\ Len(words) = 1
    /\ Len(words[1].text) = Len(searchText)
    /\ Plain(words[1].text)
    /\ Plain(searchText)

PhotoScenario ==
    /\ metadata.known
    /\ metadata.width = ScenarioImage
    /\ metadata.height = ScenarioImage
    /\ pii.hasPhoto

\* C11 as claimed: for a document with hasPhoto = true and a 500 x 500 image
\* the photo mask applied is the fixed rectangle left 50, top 50, width 150,
\* height 180, unpadded, and it lies within the image.
C11_PhotoMaskIsFixedRect ==
    PhotoScenario =>
        \E i \in 1..Len(overlays) :
            /\ "type" \in DOMAIN coordinates[overlays[i].region]
            /\ OverlayRect(overlays[i])
                  = [left |-> 50, top |-> 50, width |-> 150, height |-> 180]
            /\ overlays[i].left + overlays[i].width <= metadata.width
            /\ overlays[i].top + overlays[i].height <= metadata.height

\* a recognized word whose box is inverted or lies outside the image
Malformed(w) ==
    \/ w.bbox.x1 < w.bbox.x0
    \/ w.bbox.y1 < w.bbox.y0
    \/ w.bbox.x0 < 0
    \/ w.bbox.y0 < 0
    \/ w.bbox.x1 > file.width
    \/ w.bbox.y1 > file.height

WellFormedWords == SelectSeq(words, LAMBDA w : ~Malformed(w))

\* the regions of the request when the malformed words are left out
RegionsOfWellFormed ==
    Append(ThenPhone(ThenNames(UpToPan(WellFormedWords), WellFormedWords),
                     WellFormedWords).coordinates, estimatePhotoRegion)

\* C19 as claimed: a word with an inverted or out-of-range box is skipped on
\* its own: the regions of the request are those the other words give, and the
\* overlays are built from these regions only.
C19_MalformedWordSkipped ==
    /\ pc \in {"mask", "respond"} => coordinates = RegionsOfWellFormed
    /\ (pc = "respond" /\ metadata.known) =>
           overlays = BuildOverlays(RegionsOfWellFormed, 1, file.width, file.height)

\* C20 as claimed: when both OCR attempts fail, the reply carries errorType
\* OCR_ERROR with status 422, whatever the text of the failure message.
C20_OcrFailureReportedAsOcrError ==
    (pc = "replied" /\ result.kind = "error") =>
        /\ response.errorType = "OCR_ERROR"
        /\ response.status = 422

\* the calls of Tesseract.recognize the request has made, in order
OcrCalls ==
    SelectSeq(trace, LAMBDA e : e \in {"ocr:eng+hin", "ocrFailed:eng+hin",
                                       "ocr:eng", "ocrFailed:eng"})

\* C21: OCR is attempted at most twice: first with eng+hin and, only when that
\* attempt fails, once more with eng; after a second failure the request ends
\* with an error, and no extractor and no masking has run or runs.
C21_OcrAtMostTwice ==
    /\ OcrCalls \in {<<>>, <<"ocr:eng+hin">>, <<"ocrFailed:eng+hin">>,
                     <<"ocrFailed:eng+hin", "ocr:eng">>,
                     <<"ocrFailed:eng+hin", "ocrFailed:eng">>}
    /\ "ocrFailed:eng" \in Range(trace) =>
           /\ pc \in {"done", "replied"}
           /\ result.kind = "error"
           /\ trace[Len(trace)] = "ocrFailed:eng"
           /\ pii = getEmptyPII
           /\ coordinates = <<>>
           /\ masked = "none"

C21_Witness ==
    /\ pc = "replied"
    /\ OcrCalls = <<"ocrFailed:eng+hin", "ocrFailed:eng">>
    /\ response.status # 200

(***************************************************************************)
(* Concurrent processImage calls on the one ImageService instance of the   *)
(* controller: a call runs until its next await, where another call may    *)
(* run; its locals are its own, the instance is shared                     *)
(***************************************************************************)
\* the requests in flight at once, and how many times each slot is used
NumRequests == 2

MaxRounds == 2

Requests == 1..NumRequests

\* the uploads and the OCR results of the concurrent requests
ConcurrentSizes == {LargeImage, ScenarioImage}

ConcurrentTexts ==
    {<<>>,
     <<"N", "A", "M", "E", "\n", "J", "O", "H", "N", " ", "S", "M", "I", "T", "H", "\n", "D", "O", "B", " ", "1", "5", "/", "0", "8", "/", "1", "9", "9", "0">>,
     <<"A", "B", "C", "D", "E", "1", "2", "3", "4", "F">>}

ConcurrentOutputs ==
    {[kind |-> "ok", text |-> t, words |-> OcrWords(t), confidence |-> 90] :
        t \in ConcurrentTexts}

OcrFailures == {[kind |-> "failed", message |-> m] : m \in OcrErrorMessages}

NoOcr == [kind |-> "none"]

NoPiiData == [pii |-> getEmptyPII, coordinates |-> <<>>]

\* the locals of a processImage call that has not begun
NewLocals ==
    [pc |-> "new", round |-> 0, file |-> NoFile, buffer |-> NoImage, ocr |-> NoOcr,
     piiData |-> NoPiiData, outcome |-> "none", overlays |-> <<>>, result |-> NoResult]

\* extractPIIWithCoordinates(text, words), extractor after extractor
RunAadhaar(t, ws, r) == extractAadhaarWithCoordinates(t, ws, r.pii, r.coordinates)

RunPAN(t, ws, r) == extractPANWithCoordinates(t, ws, r.pii, r.coordinates)

RunNames(t, ws, r) == extractNamesWithCoordinates(t, ws, r.pii, r.coordinates)

RunPhone(t, ws, r) == extractPhoneWithCoordinates(t, ws, r.pii, r.coordinates)

RunPhoto(r) ==
    [pii |-> r.pii,
     coordinates |-> IF r.pii.hasPhoto THEN Append(r.coordinates, estimatePhotoRegion)
                     ELSE r.coordinates]

extractPIIWithCoordinates(t, ws) ==
    RunPhoto(RunPhone(t, ws, RunNames(t, ws, RunPAN(t, ws, RunAadhaar(t, ws,
        extractDOBWithCoordinates(t, ws, detectDocumentType(t, getEmptyPII), <<>>))))))

\* the value processImage returns after createMaskedImage
SuccessResult(ocr, piiData, outcome) ==
    [kind |-> "success",
     originalImage |-> "file.buffer",
     maskedImage |-> IF outcome = "ok" THEN "masked.jpeg" ELSE "file.buffer",
     detectedPII |-> piiData.pii,
     message |-> SuccessMessage(Cardinality(foundPII(piiData.pii))),
     extractedText |-> ocr.text,
     ocrConfig |-> [confidence |-> ocr.confidence, languages |-> "eng+hin",
                    maskedRegions |-> Len(piiData.coordinates)]]

\* a step of request i leaves the other requests and the instance as they are
Becomes(i, l) ==
    /\ requests' = [requests EXCEPT ![i] = l]
    /\ UNCHANGED instance

\* the variables of the single request of the other specifications
singleVars ==
    <<pc, file, ocrImage, ocrVars, pii, coordinates, maskVars, result, trace,
      response, searchText, fuzzyMatch, scan>>

\* ImageController calls imageService.processImage(req.file), which runs up to
\* await this.preprocessForOCR(file.buffer)
Begin(i) ==
    /\ requests[i].pc \in {"new", "done"}
    /\ requests[i].round < MaxRounds
    /\ \E n \in ConcurrentSizes :
          Becomes(i, [NewLocals EXCEPT !.pc = "preprocess",
                                       !.round = requests[i].round + 1,
                                       !.file = [width |-> n, height |-> n]])
    /\ UNCHANGED singleVars

\* preprocessForOCR settles; processImage runs up to the first
\* await Tesseract.recognize
Preprocessed(i) ==
    /\ requests[i].pc = "preprocess"
    /\ \E ok \in BOOLEAN :
          Becomes(i, [requests[i] EXCEPT
                         !.pc = "ocr1",
                         !.buffer = IF ok THEN Resized(requests[i].file)
                                    ELSE requests[i].file])
    /\ UNCHANGED singleVars

\* the synchronous part of processImage after a successful OCR attempt: the
\* empty-text return, or extractPIIWithCoordinates and createMaskedImage up
\* to await image.metadata()
Recognized(l, out) ==
    IF IsEmptyText(out.text)
    THEN [l EXCEPT !.pc = "done", !.ocr = out, !.result = EmptyTextResult]
    ELSE [l EXCEPT !.pc = "metadata", !.ocr = out,
                   !.piiData = extractPIIWithCoordinates(Trim(out.text), out.words)]

\* the first Tesseract.recognize settles
Ocr1Settled(i) ==
    /\ requests[i].pc = "ocr1"
    /\ \/ \E out \in ConcurrentOutputs : Becomes(i, Recognized(requests[i], out))
       \/ Becomes(i, [requests[i] EXCEPT !.pc = "ocr2"])
    /\ UNCHANGED singleVars

\* the second Tesseract.recognize settles
Ocr2Settled(i) ==
    /\ requests[i].pc = "ocr2"
    /\ \/ \E out \in ConcurrentOutputs : Becomes(i, Recognized(requests[i], out))
       \/ \E f \in OcrFailures :
             Becomes(i, [requests[i] EXCEPT !.pc = "done", !.ocr = f,
                                            !.result = OcrError(f.message)])
    /\ UNCHANGED singleVars

\* a variant in which the region list is kept in a property of the instance:
\* createMaskedImage finds there the list of the request that wrote it last
CoordinatesSeenBy_Shared(i) ==
    LET writers == {j \in Requests \ {i} : requests[j].pc \in {"metadata", "composite"}}
    IN  IF writers = {} THEN requests[i].piiData.coordinates
        ELSE requests[CHOOSE j \in writers : TRUE].piiData.coordinates

\* the region list createMaskedImage of request i works on: its parameter
CoordinatesSeenBy(i) == requests[i].piiData.coordinates

\* image.metadata() settles: the overlays are laid out, or the catch block
\* returns the original buffer
MetadataSettled(i) ==
    /\ requests[i].pc = "metadata"
    /\ \/ Becomes(i, [requests[i] EXCEPT
                         !.pc = "composite",
                         !.overlays = BuildOverlays(CoordinatesSeenBy(i), 1,
                                                    requests[i].file.width,
                                                    requests[i].file.height)])
       \/ Becomes(i, [requests[i] EXCEPT
                         !.pc = "done", !.outcome = "metadataFails",
                         !.result = SuccessResult(requests[i].ocr, requests[i].piiData,
                                                  "metadataFails")])
    /\ UNCHANGED singleVars

\* the overlay buffers and the composited JPEG settle, and processImage
\* returns
Composited(i) ==
    /\ requests[i].pc = "composite"
    /\ \E outcome \in {"ok", "compositeFails"} :
          Becomes(i, [requests[i] EXCEPT
                         !.pc = "done", !.outcome = outcome,
                         !.result = SuccessResult(requests[i].ocr, requests[i].piiData,
                                                  outcome)])
    /\ UNCHANGED singleVars

InitConcurrent ==
    /\ pc = "concurrent"
    /\ requests = [i \in Requests |-> NewLocals]
    /\ instance = NewImageService
    /\ scan = NoScan
    /\ file = NoFile
    /\ ocrImage = NoImage
    /\ ocrRaw = <<>>
    /\ text = <<>>
    /\ words = <<>>
    /\ confidence = 0
    /\ pii = getEmptyPII
    /\ coordinates = <<>>
    /\ metadata = NoMetadata
    /\ overlays = <<>>
    /\ masked = "none"
    /\ result = NoResult
    /\ trace = <<>>
    /\ response = NoResponse
    /\ searchText = <<>>
    /\ fuzzyMatch = FALSE

NextConcurrent ==
    \E i \in Requests :
        \/ Begin(i)
        \/ Preprocessed(i)
        \/ Ocr1Settled(i)
        \/ Ocr2Settled(i)
        \/ MetadataSettled(i)
        \/ Composited(i)

SpecConcurrent == InitConcurrent /\ [][NextConcurrent]_vars

(***************************************************************************)
(* Claims about concurrent requests                                        *)
(***************************************************************************)
\* what the call with locals l returns when it runs alone, given its upload
\* and what its own awaits settled to
AloneResult(l) ==
    IF l.ocr.kind = "failed" THEN OcrError(l.ocr.message)
    ELSE IF IsEmptyText(l.ocr.text) THEN EmptyTextResult
    ELSE SuccessResult(l.ocr, extractPIIWithCoordinates(Trim(l.ocr.text), l.ocr.words),
                       l.outcome)

\* the overlays it lays out when it runs alone
AloneOverlays(l) ==
    IF l.ocr.kind = "ok" /\ ~IsEmptyText(l.ocr.text) /\ l.outcome # "metadataFails"
    THEN BuildOverlays(extractPIIWithCoordinates(Trim(l.ocr.text), l.ocr.words).coordinates,
                       1, l.file.width, l.file.height)
    ELSE <<>>

\* C22: whatever the interleaving of the requests at their awaits and whatever
\* ran before, a request returns what it returns alone and lays out the
\* overlays it lays out alone; the shared instance is never written.
C22_RequestsIsolated ==
    /\ instance = NewImageService
    /\ \A i \in DOMAIN requests :
          /\ requests[i].pc = "done" => requests[i].result = AloneResult(requests[i])
          /\ requests[i].pc \in {"composite", "done"} =>
                 requests[i].overlays = AloneOverlays(requests[i])

C22_Witness ==
    /\ pc = "concurrent"
    /\ requests[1].pc = "done"
    /\ requests[1].round = MaxRounds
    /\ requests[1].overlays # <<>>
    /\ requests[2].pc = "composite"
    /\ requests[2].piiData.coordinates # requests[1].piiData.coordinates

(***************************************************************************)
(* Claims about the order of the steps of a request and about its reply    *)
(***************************************************************************)
\* C23 as claimed: the region list holds no region before the width and the
\* height of the image to be masked have been obtained.
C23_DimensionsBeforeRegions ==
    coordinates # <<>> => metadata.known

\* the fields of the PII record that carry a value of the document
ValueFields == {"name", "fatherName", "dob", "aadhaar", "pan", "phone", "email", "address"}

\* the number of value fields that are not null
maskedFieldCount(p) == Cardinality({k \in ValueFields : p[k] # Null})

\* C24 as claimed: the count reported in the message of a request with text is
\* the number of non-null value fields, documentType and hasPhoto not being
\* counted, and with no value field set the message is 'No PII detected'.
C24_CountsValueFields ==
    (pc \in {"done", "replied"} /\ result.kind = "success" /\ ~IsEmptyText(text)) =>
        result.message = SuccessMessage(maskedFieldCount(result.detectedPII))

(***************************************************************************)
(* The loops over pattern.exec(text) of the DOB, PAN and phone extractors, *)
(* one call of exec per step                                               *)
(***************************************************************************)
Extractors == {"dob", "pan", "phone"}

\* the patterns an extractor goes through
ScanPatterns(e) ==
    CASE e = "dob" -> dobPatterns
      [] e = "pan" -> <<"pan">>
      [] e = "phone" -> phonePatterns

ScanTexts ==
    DateFragments
    \cup {d1 \o <<" ">> \o d2 : d1 \in DateFragments, d2 \in DateFragments}
    \cup PanTexts
    \cup PhoneTexts

\* a pattern without the g flag, whose exec always starts at 0
LastIndexAfter_NotGlobal(m) == 0

\* lastIndex of a pattern with the g flag after exec returned the match m
LastIndexAfter(m) == m.stop - 1

\* the loop after exec returned m (NoMatch for null): on null lastIndex is
\* reset and the next pattern, if any, is taken; a date that is not valid is
\* passed over; any other match sets the field and leaves both loops
AfterExec(sc, m) ==
    IF m.start = 0
    THEN IF sc.k = Len(ScanPatterns(sc.extractor))
         THEN [sc EXCEPT !.pc = "ended", !.lastIndex = 0]
         ELSE [sc EXCEPT !.k = @ + 1, !.lastIndex = 0]
    ELSE IF sc.extractor = "dob" /\ ~isValidDate(m.group)
         THEN [sc EXCEPT !.lastIndex = LastIndexAfter(m), !.skipped = TRUE]
    ELSE [sc EXCEPT !.pc = "ended", !.found = m.group, !.lastIndex = LastIndexAfter(m)]

\* every match a pattern has in the text
AllMatches(pat, s) == {PatternAt(pat, s, i) : i \in 1..Len(s)} \ {NoMatch}

\* pattern.exec(text) with lastIndex = from - 1, the matches of the pattern in
\* the text being ms
ExecAmong(ms, from) == Leftmost({m \in ms : m.start >= from})

\* the loop of extractor e about to begin on the text s
ScanOf(e, s) ==
    [pc |-> "scanning", extractor |-> e, k |-> 1, lastIndex |-> 0,
     found |-> Null, skipped |-> FALSE,
     matches |-> [k \in 1..Len(ScanPatterns(e)) |-> AllMatches(ScanPatterns(e)[k], s)]]

\* one evaluation of (match = pattern.exec(text)) !== null and the loop body
ScanStep ==
    /\ scan.pc = "scanning"
    /\ scan' = AfterExec(scan, ExecAmong(scan.matches[scan.k], scan.lastIndex + 1))
    /\ UNCHANGED <<pc, file, ocrImage, ocrVars, pii, coordinates, maskVars, result,
                   trace, response, searchText, fuzzyMatch, requests, instance>>

InitScan ==
    /\ pc = "scan"
    /\ ocrRaw \in ScanTexts
    /\ text = Trim(ocrRaw)
    /\ scan \in {ScanOf(e, text) : e \in Extractors}
    /\ words = <<>>
    /\ confidence = 0
    /\ file = NoFile
    /\ ocrImage = NoImage
    /\ pii = getEmptyPII
    /\ coordinates = <<>>
    /\ metadata = NoMetadata
    /\ overlays = <<>>
    /\ masked = "none"
    /\ result = NoResult
    /\ trace = <<>>
    /\ response = NoResponse
    /\ searchText = <<>>
    /\ fuzzyMatch = FALSE
    /\ requests = <<>>
    /\ instance = NewImageService

NextScan == ScanStep

\* the loop is synchronous code: it goes on as long as it can
SpecScan == InitScan /\ [][NextScan]_vars /\ WF_vars(NextScan)

\* the field the extractor sets, computed in one go
FieldOf(e, s) ==
    CASE e = "dob" -> extractDOBWithCoordinates(s, <<>>, getEmptyPII, <<>>).pii.dob
      [] e = "pan" -> extractPANWithCoordinates(s, <<>>, getEmptyPII, <<>>).pii.pan
      [] e = "phone" -> extractPhoneWithCoordinates(s, <<>>, getEmptyPII, <<>>).pii.phone

\* C25: every loop over pattern.exec(text) of the DOB, PAN and phone extractors
\* ends, whatever the text: each turn either leaves the loop, takes the next
\* pattern or moves lastIndex forward; and it ends with the extractor's field.
C25_ScansTerminate ==
    /\ <>(scan.pc = "ended")
    /\ [](scan.pc = "ended" => scan.found = FieldOf(scan.extractor, text))
    /\ [][\/ scan'.pc = "ended"
          \/ scan'.k > scan.k
          \/ scan'.lastIndex > scan.lastIndex]_vars

C25_Witness ==
    /\ scan.pc = "ended"
    /\ scan.extractor = "dob"
    /\ scan.skipped
    /\ scan.k > 1
    /\ scan.found # Null

(***************************************************************************)
(* Claims about the resolution mode, the stages and the photo region       *)
(***************************************************************************)
\* the rectangles of the first format that exact mode resolves
ExactAadhaarCoords(num, ws) ==
    LET hits == SelectSeq(AadhaarFormats(num),
                          LAMBDA f : findTextCoordinates(f, ws, FALSE) # <<>>)
    IN  IF hits = <<>> THEN <<>> ELSE findTextCoordinates(hits[1], ws, FALSE)

\* C26 as claimed: the national ID, a structured field, is resolved in exact
\* mode: the regions added for it are those of exact token-sequence matching,
\* one merged rectangle per matched word run.
C26_NationalIdResolvedExactly ==
    (pc = "pan" /\ pii.aadhaar # Null) =>
        coordinates =
            extractDOBWithCoordinates(text, words, getEmptyPII, <<>>).coordinates
            \o ExactAadhaarCoords(pii.aadhaar, words)

\* the entries of the trace that stand for a field extractor
ExtractorCalls ==
    {"extractDOB", "extractAadhaar", "extractPAN", "extractNames", "extractPhone"}

\* entry a of the trace never comes after entry b
NeverAfter(a, b) ==
    \A i, j \in 1..Len(trace) : (trace[i] = b /\ trace[j] = a) => j < i

\* C27 as claimed: the request goes through Classify, Extract-all-fields,
\* Resolve-coordinates and Aggregate-regions in this order: no extractor runs
\* before the classification, no coordinate resolution starts before every
\* extractor has run, and the photo region comes after all resolution.
C27_StagesInOrder ==
    /\ \A e \in ExtractorCalls : NeverAfter("detectDocumentType", e)
    /\ \A e \in ExtractorCalls : NeverAfter(e, "findTextCoordinates")
    /\ NeverAfter("findTextCoordinates", "estimatePhotoRegion")

\* the positions of the region list that hold a photo region
PhotoRegions == {k \in 1..Len(coordinates) : "type" \in DOMAIN coordinates[k]}

\* C28: once extractPIIWithCoordinates has returned for a text that is not
\* empty, the region list holds exactly one photo region and it is the last
\* element; the list is not empty and the reply reports maskedRegions >= 1,
\* with or without a PII value.
C28_OnePhotoRegionLast ==
    /\ pc \in {"mask", "respond"} =>
           /\ coordinates # <<>>
           /\ PhotoRegions = {Len(coordinates)}
           /\ coordinates[Len(coordinates)] = estimatePhotoRegion
    /\ (pc \in {"done", "replied"} /\ result.kind = "success" /\ ~IsEmptyText(text)) =>
           result.ocrConfig.maskedRegions >= 1
    /\ (pc = "replied" /\ response.status = 200 /\ ~IsEmptyText(text)) =>
           response.data.processingInfo.maskedRegions >= 1

C28_Witness ==
    /\ pc = "replied"
    /\ response.status = 200
    /\ ~IsEmptyText(text)
    /\ maskedFieldCount(pii) = 0
    /\ response.data.processingInfo.maskedRegions = 1
    /\ coordinates = <<estimatePhotoRegion>>

\* the words whose text is empty once lowercased and stripped of non-word
\* characters
BlankWords ==
    {k \in 1..Len(words) : StripNonWord(ToLowerCase(words[k].text)) = <<>>}

\* C29 as claimed: in fuzzy mode a word whose stripped text is empty is never
\* accepted: its rectangle is not among the regions, whatever the target.
C29_BlankWordNotAccepted ==
    (pc = "found" /\ fuzzyMatch) =>
        \A k \in BlankWords :
            \A n \in 1..Len(coordinates) : coordinates[n] # WordRect(words[k])

\* rectangle r of an image of size a and rectangle q of an image of size b
\* cover the same part of their images
SamePart(r, a, q, b) ==
    /\ r.left * b.width = q.left * a.width
    /\ r.width * b.width = q.width * a.width
    /\ r.top * b.height = q.top * a.height
    /\ r.height * b.height = q.height * a.height

\* the rectangle masked on the original image for the k-th region: the list
\* is handed to createMaskedImage as extractPIIWithCoordinates returned it
RegionOnOriginal(k) == coordinates[k]

\* C30 as claimed: a region built from the word boxes of the image OCR ran on
\* covers the same part of the document as the rectangle masked for it on the
\* original upload, whatever the size of the upload.
C30_RegionsInOriginalSpace ==
    pc \in {"mask", "respond"} =>
        \A k \in 1..Len(coordinates) :
            "type" \notin DOMAIN coordinates[k] =>
                SamePart(coordinates[k], ocrImage, RegionOnOriginal(k), file)

====
